---- MODULE Spec2Model ----
(***************************************************************************)
(* A model of the SMTP deliverability prober:                              *)
(*   - the probe session of EmailVerifier.verifyWithMxRecord   (SpecProbe) *)
(*   - the orchestrator EmailVerifier.verifyEmail             (SpecVerify) *)
(*   - the cache / rate limiter pipeline of AdvancedEmailVerifier (SpecAdv)*)
(*   - checkRateLimit called on its own                      (SpecLimiter) *)
(*   - the batch scheduler of BulkEmailProcessor                (SpecBulk) *)
(* Times are in milliseconds, as in the source.                            *)
(***************************************************************************)
EXTENDS Integers, Sequences, FiniteSets, TLC

VARIABLES
  \* ---- probe session (verifyWithMxRecord) ----
  sess,        \* closure and socket state: step, isResolved, destroyed, outcome, ...
  response,    \* the receive buffer `response`
  timerArmed,  \* the setTimeout of line 110 is pending
  ended,       \* the socket's 'end' event was emitted
  closed,      \* the socket's 'close' event was emitted
  stream,      \* history: the bytes the socket has delivered, read after read
  framed,      \* history: the lines handed to handleSmtpResponse, in order
  \* ---- orchestrator (verifyEmail) ----
  vEmail,      \* the argument `email`, a sequence of characters
  vPc,         \* where the call is: "start", "lookup", "probing", "done"
  mxAnswer,    \* what resolveMx answered
  mxRecords,   \* the local `mxRecords`
  vIdx,        \* position of the for loop in mxRecords
  vResult,     \* the value verifyEmail returned
  mxLookups,   \* number of resolveMx calls made
  probed,      \* the verifyWithMxRecord calls made, in order, with their outcome
  \* ---- AdvancedEmailVerifier ----
  now,         \* Date.now()
  cache,       \* this.cache: address -> {result, timestamp}
  rateLimiter, \* this.rateLimiter: domain -> timestamps
  calls,       \* the verifyEmailAdvanced calls awaiting verifyEmail
  lastRet,     \* history: what the verifyEmailAdvanced call of this step did
  stored,      \* history: the last addToCache call of each address
  rlLog,       \* history: the checkRateLimit calls of a domain, {at, ok}; of the
               \* calls made by the pipeline, the admitted ones
  domainLimit, \* this.maxRequestsPerDomain of the verifier in use
  \* ---- the outcome objects of the pipeline, by identity ----
  handed,      \* the objects verifyEmailAdvanced returned: {obj, value}
  entryObj,    \* address -> the object that its cache entry refers to
  nextObj,     \* the next object to be allocated
  \* ---- BulkEmailProcessor ----
  emails,      \* the argument of processBulkEmails
  bPc,         \* where the run is: "start", "group", "group_delay", "batch_delay", "done"
  bI,          \* `i` of processBulkEmails: offset of the current batch
  gI,          \* `i` of processBatch: offset of the current group in the batch
  batchResults,\* `results` of processBatch
  results,     \* `results` of processBulkEmails
  members,     \* the verifyWithRetry calls of the current group, by position
  order,       \* history: the positions of the group in the order they settled
  bDeadline    \* when the pending inter-group or inter-batch delay ends

probeVars == <<sess, response, timerArmed, ended, closed>>
framingVars == <<stream, framed>>
aliasVars == <<handed, entryObj, nextObj>>
verifyVars == <<vEmail, vPc, mxAnswer, mxRecords, vIdx, vResult, mxLookups, probed>>
advVars == <<now, cache, rateLimiter, calls, lastRet, stored, rlLog>>
optionVars == <<domainLimit>>

bulkVars == <<emails, bPc, bI, gI, batchResults, results, members, order, bDeadline>>

vars == <<probeVars, framingVars, verifyVars, advVars, optionVars, aliasVars, bulkVars>>

notProbe == <<framingVars, verifyVars, advVars, optionVars, aliasVars, bulkVars>>
notVerify == <<probeVars, framingVars, advVars, optionVars, aliasVars, bulkVars>>
notAdv == <<probeVars, framingVars, verifyVars, optionVars, aliasVars, bulkVars>>

(***************************************************************************)
(* Bounds of the model.                                                    *)
(***************************************************************************)
MaxChunk == 2   \* pieces of the stream delivered by one 'data' event

(***************************************************************************)
(* The byte stream, at the granularity of tokens.  A code token stands for *)
(* the text of a reply that starts with that three-digit code; CR and LF   *)
(* stand for one character each.                                           *)
(***************************************************************************)
CodeTokens == {"220", "250", "450", "550", "txt"}
Whitespace == {"CR", "LF"}
Alphabet == CodeTokens \cup Whitespace

NaN == -1

TokenValue(tok) ==
  CASE tok = "220" -> 220
    [] tok = "250" -> 250
    [] tok = "450" -> 450
    [] tok = "550" -> 550
    [] OTHER -> NaN

\* Number.parseInt(line.substring(0, 3)): leading whitespace is skipped, so a
\* code that starts after one or two whitespace characters is cut short.
ParseCode(line) ==
  IF Len(line) >= 1 /\ line[1] \in CodeTokens THEN TokenValue(line[1])
  ELSE IF Len(line) >= 2 /\ line[1] \in Whitespace /\ line[2] \in CodeTokens
    THEN TokenValue(line[2]) \div 10
  ELSE IF Len(line) >= 3 /\ line[1] \in Whitespace /\ line[2] \in Whitespace
          /\ line[3] \in CodeTokens
    THEN TokenValue(line[3]) \div 100
  ELSE NaN

\* line.trim() is truthy
IsNonBlank(line) == \E k \in 1..Len(line) : line[k] \notin Whitespace

RECURSIVE SplitFrom(_, _, _, _)
\* response.split("\r\n"): the pieces of buf between the CR LF pairs
SplitFrom(buf, k, cur, acc) ==
  IF k > Len(buf) THEN Append(acc, cur)
  ELSE IF k < Len(buf) /\ buf[k] = "CR" /\ buf[k + 1] = "LF"
    THEN SplitFrom(buf, k + 2, <<>>, Append(acc, cur))
  ELSE SplitFrom(buf, k + 1, Append(cur, buf[k]), acc)

SplitCRLF(buf) == SplitFrom(buf, 1, <<>>, <<>>)

\* lines after lines.pop(), lines being the pieces of the split
CompleteLines(lines) == SubSeq(lines, 1, Len(lines) - 1)

\* lines.pop() || ""
Remainder(lines) == lines[Len(lines)]

(***************************************************************************)
(* Outcomes of a session.                                                  *)
(***************************************************************************)
Pending == [kind |-> "pending", status |-> "", isValid |-> FALSE, smtpResponse |-> <<>>]

Resolved(status, isValid, line) ==
  [kind |-> "resolved", status |-> status, isValid |-> isValid, smtpResponse |-> line]

Rejected(message) ==
  [kind |-> "rejected", status |-> message, isValid |-> FALSE, smtpResponse |-> <<>>]

NewSession ==
  [step |-> "connect", isResolved |-> FALSE, destroyed |-> FALSE,
   outcome |-> Pending, settleCalls |-> 0, lateAttempt |-> FALSE, written |-> <<>>,
   fed |-> <<>>, lateLines |-> 0, writesAtSettle |-> 0, stepAtSettle |-> "connect"]

\* cleanup() that forgets socket.destroy()
cleanup_skipped(s) == s

\* cleanup(): if (!socket.destroyed) socket.destroy()
cleanup(s) == IF ~s.destroyed THEN [s EXCEPT !.destroyed = TRUE] ELSE s

\* the promise's resolve / reject.  settleCalls counts the calls that reach
\* it and outcome is the value of the last one: the promise itself is not
\* relied on to drop a second call.  writesAtSettle is the number of commands
\* written when resolve / reject is reached, stepAtSettle the step then.
Settle(s, out) ==
  [s EXCEPT !.outcome = out, !.settleCalls = @ + 1, !.writesAtSettle = Len(s.written),
            !.stepAtSettle = s.step]

\* lateAttempt records that resolveOnce / rejectOnce ran on a settled session
Late(s) == [s EXCEPT !.lateAttempt = TRUE]

resolveOnce(s, result) ==
  IF ~s.isResolved
    THEN Settle(cleanup([s EXCEPT !.isResolved = TRUE]), result)
    ELSE Late(s)

\* rejectOnce without its isResolved test
rejectOnce_unguarded(s, error) ==
  Settle(cleanup([s EXCEPT !.isResolved = TRUE]), Rejected(error))

rejectOnce(s, error) ==
  IF ~s.isResolved
    THEN Settle(cleanup([s EXCEPT !.isResolved = TRUE]), Rejected(error))
    ELSE Late(s)

\* sendCommand: socket.write(command + "\r\n")
sendCommand(s, command) == [s EXCEPT !.written = Append(@, command)]

\* case "connect", lines 168-180
caseConnect(s, line, code) ==
  IF code = 220 THEN sendCommand(s, "EHLO")
  ELSE resolveOnce(s, Resolved("connection_rejected", FALSE, line))

\* the ehlo case without the HELO fallback
caseEhlo_noFallback(s, line, code) ==
  IF code = 250 THEN sendCommand(s, "MAIL FROM")
  ELSE resolveOnce(s, Resolved("handshake_failed", FALSE, line))

\* case "ehlo", lines 182-189
caseEhlo(s, line, code) ==
  IF code = 250 THEN sendCommand(s, "MAIL FROM") ELSE sendCommand(s, "HELO")

\* case "helo", lines 191-203
caseHelo(s, line, code) ==
  IF code = 250 THEN sendCommand(s, "MAIL FROM")
  ELSE resolveOnce(s, Resolved("handshake_failed", FALSE, line))

\* the mail_from case that takes every 2xx code for an acceptance
caseMailFrom_any2xx(s, line, code) ==
  IF code >= 200 /\ code <= 299 THEN sendCommand(s, "RCPT TO")
  ELSE resolveOnce(s, Resolved("mail_from_rejected", FALSE, line))

\* case "mail_from", lines 205-217
caseMailFrom(s, line, code) ==
  IF code = 250 THEN sendCommand(s, "RCPT TO")
  ELSE resolveOnce(s, Resolved("mail_from_rejected", FALSE, line))

\* the rcpt_to case with the 4xx range taken for a rejection
caseRcptTo_wideInvalid(s, line, code) ==
  LET classify(q) ==
        IF code = 250 THEN resolveOnce(q, Resolved("valid", TRUE, line))
        ELSE IF code >= 400 /\ code <= 599
          THEN resolveOnce(q, Resolved("invalid", FALSE, line))
        ELSE resolveOnce(q, Resolved("unknown_response", FALSE, line))
  IN classify(sendCommand(s, "QUIT"))

\* the rcpt_to case with isValid: true copied into the 5xx branch
caseRcptTo_copiedFlag(s, line, code) ==
  LET classify(q) ==
        IF code = 250 THEN resolveOnce(q, Resolved("valid", TRUE, line))
        ELSE IF code >= 500 /\ code <= 599
          THEN resolveOnce(q, Resolved("invalid", TRUE, line))
        ELSE IF code >= 400 /\ code <= 499
          THEN resolveOnce(q, Resolved("temporary_failure", FALSE, line))
        ELSE resolveOnce(q, Resolved("unknown_response", FALSE, line))
  IN classify(sendCommand(s, "QUIT"))

\* the rcpt_to case that classifies first and sends QUIT afterwards
caseRcptTo_quitLast(s, line, code) ==
  LET classify(q) ==
        IF code = 250 THEN resolveOnce(q, Resolved("valid", TRUE, line))
        ELSE IF code >= 500 /\ code <= 599
          THEN resolveOnce(q, Resolved("invalid", FALSE, line))
        ELSE IF code >= 400 /\ code <= 499
          THEN resolveOnce(q, Resolved("temporary_failure", FALSE, line))
        ELSE resolveOnce(q, Resolved("unknown_response", FALSE, line))
  IN sendCommand(classify(s), "QUIT")

\* case "rcpt_to", lines 219-255
caseRcptTo(s, line, code) ==
  LET classify(q) ==
        IF code = 250 THEN resolveOnce(q, Resolved("valid", TRUE, line))
        ELSE IF code >= 500 /\ code <= 599
          THEN resolveOnce(q, Resolved("invalid", FALSE, line))
        ELSE IF code >= 400 /\ code <= 499
          THEN resolveOnce(q, Resolved("temporary_failure", FALSE, line))
        ELSE resolveOnce(q, Resolved("unknown_response", FALSE, line))
  IN classify(sendCommand(s, "QUIT"))

handleSmtpResponse(s, line, step) ==
  CASE step = "connect" -> caseConnect(s, line, ParseCode(line))
    [] step = "ehlo" -> caseEhlo(s, line, ParseCode(line))
    [] step = "helo" -> caseHelo(s, line, ParseCode(line))
    [] step = "mail_from" -> caseMailFrom(s, line, ParseCode(line))
    [] step = "rcpt_to" -> caseRcptTo(s, line, ParseCode(line))
    [] OTHER -> s

getNextStep(currentStep, line) ==
  LET code == ParseCode(line) IN
  CASE currentStep = "connect" -> "ehlo"
    [] currentStep = "ehlo" -> IF code = 250 THEN "mail_from" ELSE "helo"
    [] currentStep = "helo" -> "mail_from"
    [] currentStep = "mail_from" -> "rcpt_to"
    [] currentStep = "rcpt_to" -> "quit"
    [] OTHER -> currentStep

\* what is remembered of a line handed to handleSmtpResponse before the
\* session has settled: its reply code, the step it was handled in, the number
\* of commands written before it, whether the session's outcome after it
\* carries this very line as smtpResponse, whether the line settled it, and,
\* for a line handled in step rcpt_to, whether RCPT TO was written between
\* the arrival of the read that carried the line (atRead commands written
\* by then) and its handling
Fed(s, line, after, atRead) ==
  [code |-> ParseCode(line), step |-> s.step, writes |-> Len(s.written),
   carried |-> after.outcome.kind = "resolved" /\ after.outcome.smtpResponse = line,
   settles |-> after.isResolved,
   early |-> s.step = "rcpt_to" /\ Len(s.written) > atRead]

RECURSIVE ProcessLines(_, _, _)
\* the for loop of the 'data' handler; fed lists the lines it handled on an
\* unsettled session, lateLines counts those it handled on a settled one.
\* The pass that settles the session ends with line 131: stepAtSettle is the
\* step as that pass leaves it.
ProcessLines(lines, s, atRead) ==
  IF lines = <<>> THEN s
  ELSE LET line == Head(lines)
           handled(after) ==
             IF s.isResolved
               THEN [after EXCEPT !.step = getNextStep(s.step, line),
                                  !.lateLines = @ + 1]
               ELSE [after EXCEPT !.step = getNextStep(s.step, line),
                                  !.stepAtSettle = getNextStep(s.step, line),
                                  !.fed = Append(@, Fed(s, line, after, atRead))]
       IN IF IsNonBlank(line)
            THEN ProcessLines(Tail(lines), handled(handleSmtpResponse(s, line, s.step)), atRead)
            ELSE ProcessLines(Tail(lines), s, atRead)

\* What one read is made of: a reply text, a line terminator whole or cut in
\* two, or a reply that arrives with its terminator.
Pieces == {<<t>> : t \in Alphabet} \cup {<<"CR", "LF">>}
             \cup {<<t, "CR", "LF">> : t \in CodeTokens}

RECURSIVE Flatten(_)
Flatten(ps) == IF ps = <<>> THEN <<>> ELSE Head(ps) \o Flatten(Tail(ps))

\* The lines the server sends: a reply text, possibly after one stray
\* whitespace character, possibly followed by the CR of a terminator cut in two.
LineShapes ==
  {<<>>} \cup {<<t>> : t \in Alphabet}
         \cup {<<w, c>> : w \in Whitespace, c \in CodeTokens}
         \cup {<<c, "CR">> : c \in CodeTokens}

Chunks == {Flatten(ps) : ps \in UNION {[1..n -> Pieces] : n \in 1..MaxChunk}}

\* socket.on("data"): no 'data' event follows 'end' or socket.destroy()
OnData(data) ==
  /\ ~sess.destroyed /\ ~ended
  /\ LET received(lines) ==
           /\ \A k \in 1..Len(lines) : lines[k] \in LineShapes
           /\ sess' = ProcessLines(CompleteLines(lines), sess, Len(sess.written))
           /\ response' = Remainder(lines)
     IN received(SplitCRLF(response \o data))
  /\ UNCHANGED <<timerArmed, ended, closed, notProbe>>

\* socket.on("error"): the socket is destroyed by the time 'error' is emitted
OnError ==
  /\ ~closed
  /\ sess' = rejectOnce([sess EXCEPT !.destroyed = TRUE], "socket error")
  /\ UNCHANGED <<response, timerArmed, ended, closed, notProbe>>

\* a timer callback that does not settle the session
OnTimer_idle ==
  /\ timerArmed
  /\ timerArmed' = FALSE
  /\ UNCHANGED <<sess, response, ended, closed, notProbe>>

\* the setTimeout callback of line 110
OnTimer ==
  /\ timerArmed
  /\ timerArmed' = FALSE
  /\ sess' = rejectOnce(sess, "Connection timeout")
  /\ UNCHANGED <<response, ended, closed, notProbe>>

\* socket.on("timeout"): the idle timeout of socket.setTimeout
OnSocketTimeout ==
  /\ ~closed
  /\ sess' = rejectOnce(sess, "Socket timeout")
  /\ UNCHANGED <<response, timerArmed, ended, closed, notProbe>>

\* socket.on("end"): the peer finished its side; clearTimeout(timeoutId)
OnEnd ==
  /\ ~sess.destroyed /\ ~ended
  /\ ended' = TRUE
  /\ timerArmed' = FALSE
  /\ UNCHANGED <<sess, response, closed, notProbe>>

\* socket.on("close"): emitted once, after destroy() or after 'end'
OnClose ==
  /\ ~closed
  /\ sess.destroyed \/ ended
  /\ closed' = TRUE
  /\ sess' = IF ~sess.isResolved
               THEN rejectOnce([sess EXCEPT !.destroyed = TRUE], "Connection closed unexpectedly")
               ELSE [sess EXCEPT !.destroyed = TRUE]
  /\ UNCHANGED <<response, timerArmed, ended, notProbe>>

(***************************************************************************)
(* The orchestrator: EmailVerifier.verifyEmail.                            *)
(***************************************************************************)
MaxEmailLen == 5   \* characters of an address
MaxMx == 2         \* records in one resolveMx answer
MaxPriority == 2   \* MX priorities are 1..MaxPriority

Chars == {"a", "@", ".", " "}
Strings == UNION {[1..n -> Chars] : n \in 0..MaxEmailLen}

\* [^\s@]
IsPlain(c) == c # " " /\ c # "@"

\* /^[^\s@]+@[^\s@]+\.[^\s@]+$/.test(email)
isValidEmailFormat_atOnly(email) ==
  \E i \in 2..(Len(email) - 1) :
    /\ email[i] = "@"
    /\ \A k \in 1..Len(email) : k # i => IsPlain(email[k])

isValidEmailFormat(email) ==
  \E i \in 1..Len(email), j \in 1..Len(email) :
    /\ 1 < i /\ i + 1 < j /\ j < Len(email)
    /\ email[i] = "@"
    /\ email[j] = "."
    /\ \A k \in 1..Len(email) : k # i => IsPlain(email[k])

Hosts == {"mx1", "mx2", "mx3"}
MxRecord == [exchange : Hosts, priority : 1..MaxPriority]
\* resolveMx answers with the records in any order, one per host
MxLists ==
  {l \in UNION {[1..n -> MxRecord] : n \in 0..MaxMx} :
     \A a, b \in 1..Len(l) : a # b => l[a].exchange # l[b].exchange}
MxAnswers == {[ok |-> TRUE, records |-> l] : l \in MxLists}
               \cup {[ok |-> FALSE, records |-> <<>>]}
NoAnswer == [ok |-> FALSE, records |-> <<>>]

RECURSIVE Insert(_, _)
Insert(sorted, r) ==
  IF sorted = <<>> THEN <<r>>
  ELSE IF r.priority < Head(sorted).priority THEN <<r>> \o sorted
  ELSE <<Head(sorted)>> \o Insert(Tail(sorted), r)

RECURSIVE SortByPriority(_)
\* records.sort((a, b) => a.priority - b.priority), a stable sort
SortByPriority(records) ==
  IF records = <<>> THEN <<>>
  ELSE Insert(SortByPriority(SubSeq(records, 1, Len(records) - 1)),
              records[Len(records)])

\* getMxRecords that lets the lookup error through
getMxRecords_rethrows(answer) ==
  IF answer.ok
    THEN [kind |-> "value", records |-> SortByPriority(answer.records)]
    ELSE [kind |-> "throw", records |-> <<>>]

\* getMxRecords that returns the records as resolveMx gave them
getMxRecords_unsorted(answer) ==
  IF answer.ok
    THEN [kind |-> "value", records |-> answer.records]
    ELSE [kind |-> "null", records |-> <<>>]

\* getMxRecords: the sorted records, or null when resolveMx rejects
getMxRecords(answer) ==
  IF answer.ok
    THEN [kind |-> "value", records |-> SortByPriority(answer.records)]
    ELSE [kind |-> "null", records |-> <<>>]

Outcome(status, isValid) == [status |-> status, isValid |-> isValid]
NoResult == Outcome("", FALSE)

\* the statuses a probe session resolves with (handleSmtpResponse)
SessionStatuses ==
  {"connection_rejected", "handshake_failed", "mail_from_rejected",
   "valid", "invalid", "temporary_failure", "unknown_response"}

\* a failed probe falls through to the next record whatever it reported
probeConcludes_never(o) == FALSE

\* lines 48-55: a probe that resolves with anything but connection_failed
\* ends the loop; a rejection is caught and the loop continues
probeConcludes(o) == o.kind = "resolved" /\ o.status # "connection_failed"

\* lines 23-35: the format test, then the call of getMxRecords
CheckFormat ==
  /\ vPc = "start"
  /\ IF ~isValidEmailFormat(vEmail)
       THEN /\ vResult' = Outcome("invalid_format", FALSE)
            /\ vPc' = "done"
            /\ UNCHANGED mxLookups
       ELSE /\ vPc' = "lookup"
            /\ mxLookups' = mxLookups + 1
            /\ UNCHANGED vResult
  /\ UNCHANGED <<vEmail, mxAnswer, mxRecords, vIdx, probed, notVerify>>

\* verifyWithMxRecord(email, mx.exchange) is called: socket.connect
StartProbe(records, k) ==
  Append(probed, [exchange |-> records[k].exchange, priority |-> records[k].priority,
                  outcome |-> "inflight"])

\* lines 35-48: getMxRecords returns; no record ends the call, else the loop
\* starts with the first record
LookupReturns(answer) ==
  /\ vPc = "lookup"
  /\ mxAnswer' = answer
  /\ LET got == getMxRecords(answer) IN
     IF got.kind = "throw"
       THEN /\ vResult' = Outcome("error", FALSE)
            /\ vPc' = "done"
            /\ UNCHANGED <<mxRecords, vIdx, probed>>
     ELSE IF got.kind = "null" \/ Len(got.records) = 0
       THEN /\ vResult' = Outcome("no_mx_record", FALSE)
            /\ vPc' = "done"
            /\ mxRecords' = got.records
            /\ UNCHANGED <<vIdx, probed>>
     ELSE /\ mxRecords' = got.records
          /\ vIdx' = 1
          /\ probed' = StartProbe(got.records, 1)
          /\ vPc' = "probing"
          /\ UNCHANGED vResult
  /\ UNCHANGED <<vEmail, mxLookups, notVerify>>

\* lines 48-63: the awaited probe settles with o; the loop returns its
\* result, or goes on to the next record, or runs out of records
ProbeSettles(o) ==
  /\ vPc = "probing"
  /\ LET done == [probed EXCEPT ![vIdx].outcome =
                     IF o.kind = "resolved" THEN o.status ELSE "rejected"] IN
     IF probeConcludes(o)
       THEN /\ vResult' = Outcome(o.status, o.isValid)
            /\ vPc' = "done"
            /\ probed' = done
            /\ UNCHANGED vIdx
     ELSE IF vIdx < Len(mxRecords)
       THEN /\ vIdx' = vIdx + 1
            /\ probed' = Append(done,
                 [exchange |-> mxRecords[vIdx + 1].exchange,
                  priority |-> mxRecords[vIdx + 1].priority, outcome |-> "inflight"])
            /\ UNCHANGED <<vResult, vPc>>
     ELSE /\ vResult' = Outcome("connection_failed", FALSE)
          /\ vPc' = "done"
          /\ probed' = done
          /\ UNCHANGED vIdx
  /\ UNCHANGED <<vEmail, mxAnswer, mxRecords, mxLookups, notVerify>>

\* what a probe session settles with: a resolved status, or a rejection
ProbeOutcomes ==
  {[kind |-> "resolved", status |-> st, isValid |-> (st = "valid")] : st \in SessionStatuses}
    \cup {[kind |-> "rejected", status |-> "", isValid |-> FALSE]}

(***************************************************************************)
(* AdvancedEmailVerifier: the result cache, the rate limiter and the       *)
(* pipeline verifyEmailAdvanced.                                           *)
(***************************************************************************)
cacheExpiry == 6000          \* options.cacheExpiry
rateLimitWindow == 4000      \* options.rateLimitWindow
maxRequestsPerDomain == 1    \* options.maxRequestsPerDomain
TickMs == rateLimitWindow \div 2   \* the clock moves in steps of half a window
MaxNow == 6000               \* the clock stops ticking at MaxNow
MaxChecks == 4               \* checkRateLimit calls logged per domain

\* the callers of verifyEmailAdvanced that may be in flight at once
Callers == {"c1", "c2"}

A1 == <<"a", "@", "a", ".", "a">>
A2 == <<"a", "a", "@", "a", ".", "a">>
Bad == <<"a", "a">>
\* an address that is no string (null): email.split throws
NotAString == <<"null">>
Addresses == {A1, A2, Bad, NotAString}

\* the key `undefined`
Undefined == <<"undefined">>

Min(S) == CHOOSE x \in S : \A y \in S : x <= y

\* email.split("@")[1]
DomainOf(email) ==
  LET ats == {k \in 1..Len(email) : email[k] = "@"} IN
  IF ats = {} THEN Undefined
  ELSE LET i == Min(ats)
           later == {k \in ats : k > i}
           j == IF later = {} THEN Len(email) + 1 ELSE Min(later)
       IN SubSeq(email, i + 1, j - 1)

Domains == {DomainOf(e) : e \in Addresses \ {NotAString}}

\* a verification result as the pipeline hands it on
Result(email, status, fromCache) ==
  [email |-> email, status |-> status, isValid |-> (status = "valid"), fromCache |-> fromCache]

\* an outcome object written out in the pipeline or the scheduler
Literal(email, isValid, status) ==
  [email |-> email, status |-> status, isValid |-> isValid, fromCache |-> FALSE]

NoEntry == [present |-> FALSE, result |-> Result(<<>>, "", FALSE), timestamp |-> 0]

\* getFromCache that keeps an entry for one more millisecond
getFromCache_lateExpiry(c, email, t) ==
  IF c[email].present /\ t - c[email].timestamp <= cacheExpiry
    THEN [cache |-> c, hit |-> TRUE, result |-> c[email].result]
  ELSE IF c[email].present
    THEN [cache |-> [c EXCEPT ![email] = NoEntry], hit |-> FALSE, result |-> NoEntry.result]
  ELSE [cache |-> c, hit |-> FALSE, result |-> NoEntry.result]

\* getFromCache: the entry's result while it is fresh; an expired entry is
\* deleted and null returned
getFromCache(c, email, t) ==
  IF c[email].present /\ t - c[email].timestamp < cacheExpiry
    THEN [cache |-> c, hit |-> TRUE, result |-> c[email].result]
  ELSE IF c[email].present
    THEN [cache |-> [c EXCEPT ![email] = NoEntry], hit |-> FALSE, result |-> NoEntry.result]
  ELSE [cache |-> c, hit |-> FALSE, result |-> NoEntry.result]

\* addToCache
addToCache(c, email, result, t) ==
  [c EXCEPT ![email] = [present |-> TRUE, result |-> result, timestamp |-> t]]

\* domainRequests.filter((timestamp) => now - timestamp < this.rateLimitWindow)
ValidRequests(ts, t) == SelectSeq(ts, LAMBDA x : t - x < rateLimitWindow)

\* checkRateLimit with > for >=
checkRateLimit_offByOne(rl, domain, t) ==
  LET validRequests == ValidRequests(rl[domain], t) IN
  IF Len(validRequests) > domainLimit
    THEN [rl |-> rl, ok |-> FALSE]
    ELSE [rl |-> [rl EXCEPT ![domain] = Append(validRequests, t)], ok |-> TRUE]

\* checkRateLimit that keeps only the timestamps of the last half window
checkRateLimit_eagerPrune(rl, domain, t) ==
  LET validRequests == SelectSeq(rl[domain], LAMBDA x : t - x < rateLimitWindow \div 2) IN
  IF Len(validRequests) >= domainLimit
    THEN [rl |-> rl, ok |-> FALSE]
    ELSE [rl |-> [rl EXCEPT ![domain] = Append(validRequests, t)], ok |-> TRUE]

\* checkRateLimit with one budget for all domains: the timestamps of every
\* key are counted against the limit
checkRateLimit_sharedBudget(rl, domain, t) ==
  LET validRequests == ValidRequests(rl[domain], t)
      everyRequest == UNION {{<<x, k>> : k \in 1..Len(ValidRequests(rl[x], t))} : x \in DOMAIN rl}
  IN IF Cardinality(everyRequest) >= domainLimit
       THEN [rl |-> rl, ok |-> FALSE]
       ELSE [rl |-> [rl EXCEPT ![domain] = Append(validRequests, t)], ok |-> TRUE]

\* checkRateLimit
checkRateLimit(rl, domain, t) ==
  LET validRequests == ValidRequests(rl[domain], t) IN
  IF Len(validRequests) >= domainLimit
    THEN [rl |-> rl, ok |-> FALSE]
    ELSE [rl |-> [rl EXCEPT ![domain] = Append(validRequests, t)], ok |-> TRUE]

\* verifyEmailAdvanced that asks the rate limiter before it looks in the cache
advPrefix_limitFirst(c, rl, email, t) ==
  LET answer(got, lim) ==
        IF got.hit
          THEN [kind |-> "return", cache |-> got.cache, rl |-> lim.rl, read |-> got,
                checked |-> TRUE, ok |-> lim.ok,
                value |-> [got.result EXCEPT !.fromCache = TRUE]]
        ELSE IF ~lim.ok
          THEN [kind |-> "return", cache |-> got.cache, rl |-> lim.rl, read |-> got,
                checked |-> TRUE, ok |-> FALSE,
                value |-> Literal(email, FALSE, "rate_limited")]
        ELSE [kind |-> "await", cache |-> got.cache, rl |-> lim.rl, read |-> got,
              checked |-> TRUE, ok |-> TRUE, value |-> Result(email, "", FALSE)]
      thrown(got) ==
        [kind |-> "throw", cache |-> got.cache, rl |-> rl, read |-> got,
         checked |-> FALSE, ok |-> FALSE, value |-> Result(email, "TypeError", FALSE)]
  IN IF email = NotAString THEN thrown(getFromCache(c, email, t))
     ELSE answer(getFromCache(c, email, t), checkRateLimit(rl, DomainOf(email), t))

\* verifyEmailAdvanced up to its await (lines 17-37).  kind is "return" with
\* the value returned, "await" when verifyEmail was called, "throw" when
\* email.split failed.  read and check tell what the cache and the limiter did.
advPrefix(c, rl, email, t) ==
  LET limited(got, lim) ==
        IF ~lim.ok
          THEN [kind |-> "return", cache |-> got.cache, rl |-> lim.rl, read |-> got,
                checked |-> TRUE, ok |-> FALSE,
                value |-> Literal(email, FALSE, "rate_limited")]
          ELSE [kind |-> "await", cache |-> got.cache, rl |-> lim.rl, read |-> got,
                checked |-> TRUE, ok |-> TRUE, value |-> Result(email, "", FALSE)]
      cached(got) ==
        IF got.hit
          THEN [kind |-> "return", cache |-> got.cache, rl |-> rl, read |-> got,
                checked |-> FALSE, ok |-> FALSE,
                value |-> [got.result EXCEPT !.fromCache = TRUE]]
        ELSE IF email = NotAString
          THEN [kind |-> "throw", cache |-> got.cache, rl |-> rl, read |-> got,
                checked |-> FALSE, ok |-> FALSE,
                value |-> Result(email, "TypeError", FALSE)]
        ELSE limited(got, checkRateLimit(rl, DomainOf(email), t))
  IN cached(getFromCache(c, email, t))

\* what verifyEmail answers for an address of the pipeline
PipelineStatuses == {"valid", "temporary_failure"}
VerifyStatuses(email) ==
  IF isValidEmailFormat(email) THEN PipelineStatuses ELSE {"invalid_format"}

Idle == [pc |-> "idle", email |-> <<>>]
NoRet == [kind |-> "none", email |-> <<>>, value |-> NoEntry.result, evicted |-> FALSE]

\* a caller invokes verifyEmailAdvanced(email); it runs to its return or to
\* the await of verifyEmail
AdvCall(p, email) ==
  /\ calls[p].pc = "idle"
  /\ LET ran(r) ==
           /\ cache' = r.cache
           /\ rateLimiter' = r.rl
           /\ calls' = IF r.kind = "await"
                         THEN [calls EXCEPT ![p] = [pc |-> "verifying", email |-> email]]
                         ELSE calls
           /\ lastRet' = [kind |-> r.kind, email |-> email, value |-> r.value,
                          evicted |-> cache[email].present /\ ~r.cache[email].present]
           /\ rlLog' = IF r.checked /\ r.ok
                         THEN [rlLog EXCEPT ![DomainOf(email)] =
                                 Append(@, [at |-> now, ok |-> TRUE])]
                         ELSE rlLog
     IN ran(advPrefix(cache, rateLimiter, email, now))
  /\ UNCHANGED <<now, stored, notAdv>>

\* verifyEmail answers; lines 37-42: the result is cached and returned
AdvComplete(p, status) ==
  /\ calls[p].pc = "verifying"
  /\ status \in VerifyStatuses(calls[p].email)
  /\ cache' = addToCache(cache, calls[p].email, Result(calls[p].email, status, FALSE), now)
  /\ stored' = [stored EXCEPT ![calls[p].email] =
                  [present |-> TRUE, result |-> Result(calls[p].email, status, FALSE),
                   timestamp |-> now]]
  /\ calls' = [calls EXCEPT ![p] = Idle]
  /\ lastRet' = NoRet
  /\ UNCHANGED <<now, rateLimiter, rlLog, notAdv>>

(***************************************************************************)
(* The pipeline with the identity of its outcome objects.  Every object    *)
(* literal and every spread allocates a new object; a variable or a Map    *)
(* entry holds a reference.  cache[e].result is the present content of the *)
(* object entryObj[e].                                                     *)
(***************************************************************************)
MaxObjects == 3   \* outcome objects allocated

\* the content the caller writes into an object it was handed
Tampered(v) == [v EXCEPT !.status = "tampered"]

\* verifyEmailAdvanced returns without awaiting: { ...cached, fromCache: true }
\* (line 22) and the rate_limited literal (28-33) are new objects
AliasCall(p, email) ==
  /\ calls[p].pc = "idle"
  /\ nextObj <= MaxObjects
  /\ LET ran(r) ==
           /\ cache' = r.cache
           /\ rateLimiter' = r.rl
           /\ calls' = IF r.kind = "await"
                         THEN [calls EXCEPT ![p] = [pc |-> "verifying", email |-> email]]
                         ELSE calls
           /\ handed' = IF r.kind = "return"
                          THEN Append(handed, [obj |-> nextObj, value |-> r.value])
                          ELSE handed
           /\ nextObj' = IF r.kind = "return" THEN nextObj + 1 ELSE nextObj
     IN ran(advPrefix(cache, rateLimiter, email, now))
  /\ UNCHANGED <<now, lastRet, stored, rlLog, entryObj>>
  /\ UNCHANGED <<probeVars, framingVars, verifyVars, optionVars, bulkVars>>

\* verifyEmail answers with a new object `result`; addToCache(email, result)
\* puts that object into the entry (line 40, 63-66) and `return result`
\* hands the same object to the caller (line 42)
AliasComplete(p, status) ==
  /\ calls[p].pc = "verifying"
  /\ nextObj <= MaxObjects
  /\ status \in VerifyStatuses(calls[p].email)
  /\ cache' = addToCache(cache, calls[p].email, Result(calls[p].email, status, FALSE), now)
  /\ entryObj' = [entryObj EXCEPT ![calls[p].email] = nextObj]
  /\ handed' = Append(handed, [obj |-> nextObj,
                                 value |-> Result(calls[p].email, status, FALSE)])
  /\ nextObj' = nextObj + 1
  /\ calls' = [calls EXCEPT ![p] = Idle]
  /\ UNCHANGED <<now, rateLimiter, lastRet, stored, rlLog>>
  /\ UNCHANGED <<probeVars, framingVars, verifyVars, optionVars, bulkVars>>

\* a caller assigns to a property of an object it was handed; the entry
\* that refers to the same object shows the new content
CallerMutates(k) ==
  /\ k \in 1..Len(handed)
  /\ handed[k].value.status # "tampered"
  /\ handed' = [j \in 1..Len(handed) |->
                  IF handed[j].obj = handed[k].obj
                    THEN [handed[j] EXCEPT !.value = Tampered(@)]
                    ELSE handed[j]]
  /\ cache' = [e \in Addresses |->
                 IF cache[e].present /\ entryObj[e] = handed[k].obj
                   THEN [cache[e] EXCEPT !.result = Tampered(@)]
                   ELSE cache[e]]
  /\ UNCHANGED <<now, rateLimiter, calls, lastRet, stored, rlLog, entryObj, nextObj>>
  /\ UNCHANGED <<probeVars, framingVars, verifyVars, optionVars, bulkVars>>

\* time passes
Tick ==
  /\ now + TickMs <= MaxNow
  /\ now' = now + TickMs
  /\ lastRet' = NoRet
  /\ UNCHANGED <<cache, rateLimiter, calls, stored, rlLog, notAdv>>

\* checkRateLimit(domain) called on its own
RateCheck(domain) ==
  /\ Len(rlLog[domain]) < MaxChecks
  /\ LET lim == checkRateLimit(rateLimiter, domain, now) IN
     /\ rateLimiter' = lim.rl
     /\ rlLog' = [rlLog EXCEPT ![domain] = Append(@, [at |-> now, ok |-> lim.ok])]
  /\ UNCHANGED <<now, cache, calls, lastRet, stored, notAdv>>

(***************************************************************************)
(* BulkEmailProcessor: processBulkEmails, processBatch, verifyWithRetry.   *)
(***************************************************************************)
batchSize == 3       \* options.batchSize
concurrency == 2     \* options.concurrency
retryAttempts == 2   \* options.retryAttempts
MaxEmails == 4       \* addresses in one run
interBatchDelay == 2000   \* this.delay
GroupDelayMs == 500
TempBackoffMs == 5000
ErrorBackoffMs == 3000

\* the kinds of input list: well-formed and malformed strings, or malformed
\* strings and values that are no strings
BulkAddresses == {{A1, Bad}, {Bad, NotAString}}
\* lists of one address in which the first member of the second group is
\* another address of the same domain
SameDomainInputs ==
  {[k \in 1..n |-> IF k = concurrency + 1 THEN A2 ELSE A1] : n \in (concurrency + 1)..MaxEmails}
BulkInputs ==
  UNION {[1..n -> as] : n \in 0..MaxEmails, as \in BulkAddresses} \cup SameDomainInputs

MinOf(a, b) == IF a < b THEN a ELSE b

\* emails.slice(i, i + n)
Slice(xs, i, n) == SubSeq(xs, i + 1, MinOf(i + n, Len(xs)))

NewMember(email) ==
  [email |-> email, pc |-> "new", attempt |-> 1, deadline |-> 0,
   value |-> NoEntry.result, waits |-> <<>>, statuses |-> <<>>,
   calledAt |-> 0, cacheIn |-> [e \in Addresses |-> NoEntry],
   cacheOut |-> [e \in Addresses |-> NoEntry]]

IsSettled(m) == m.pc \in {"fulfilled", "rejected"}

\* the backoff that does not grow with the attempt
tempBackoff_flat(attempt) == TempBackoffMs

\* line 134: 5000 * attempt
tempBackoff(attempt) == TempBackoffMs * attempt

\* line 142: 3000 * attempt
errorBackoff(attempt) == ErrorBackoffMs * attempt

Sleep(m, delay, status, t) ==
  [m EXCEPT !.pc = "backoff", !.deadline = t + delay, !.waits = Append(@, delay),
            !.statuses = Append(@, status)]

\* verifyWithRetry that also retries a rate_limited result
afterResult_retriesLimited(m, value, t) ==
  IF value.status \in {"temporary_failure", "rate_limited"} /\ m.attempt <= retryAttempts
    THEN Sleep(m, tempBackoff(m.attempt), value.status, t)
    ELSE [m EXCEPT !.pc = "fulfilled", !.value = value,
                   !.statuses = Append(@, value.status)]

\* verifyWithRetry, lines 131-138: what follows the pipeline's result
afterResult(m, value, t) ==
  IF value.status = "temporary_failure" /\ m.attempt <= retryAttempts
    THEN Sleep(m, tempBackoff(m.attempt), value.status, t)
    ELSE [m EXCEPT !.pc = "fulfilled", !.value = value,
                   !.statuses = Append(@, value.status)]

\* verifyWithRetry whose catch block allows one attempt more
afterThrow_extraAttempt(m, t) ==
  IF m.attempt <= retryAttempts + 1
    THEN Sleep(m, errorBackoff(m.attempt), "throw", t)
    ELSE [m EXCEPT !.pc = "rejected", !.statuses = Append(@, "throw")]

\* verifyWithRetry, lines 139-146: what follows the pipeline's exception
afterThrow(m, t) ==
  IF m.attempt <= retryAttempts
    THEN Sleep(m, errorBackoff(m.attempt), "throw", t)
    ELSE [m EXCEPT !.pc = "rejected", !.statuses = Append(@, "throw")]

\* verifyWithRetry(email, attempt) up to its first suspension
attemptPrefix(c, rl, m, t) ==
  LET \* history: the cache before and after a call that the limiter rejects
      called(r) == IF r.checked /\ ~r.ok
                     THEN [m EXCEPT !.calledAt = t, !.cacheIn = c, !.cacheOut = r.cache]
                     ELSE m
      after(r) ==
        [cache |-> r.cache, rl |-> r.rl,
         m |-> CASE r.kind = "return" -> afterResult(called(r), r.value, t)
                 [] r.kind = "throw" -> afterThrow(called(r), t)
                 [] OTHER -> [called(r) EXCEPT !.pc = "verifying"]]
  IN after(advPrefix(c, rl, m.email, t))

RECURSIVE RunNew(_, _, _, _, _)
\* group.map((email) => this.verifyWithRetry(email)): the calls run one after
\* the other, each to its first suspension
RunNew(ms, k, c, rl, t) ==
  IF k > Len(ms) THEN [cache |-> c, rl |-> rl, members |-> ms]
  ELSE IF ms[k].pc = "new"
    THEN LET next(r) == RunNew([ms EXCEPT ![k] = r.m], k + 1, r.cache, r.rl, t)
         IN next(attemptPrefix(c, rl, ms[k], t))
  ELSE RunNew(ms, k + 1, c, rl, t)

\* verifyEmail has answered: advanced lines 37-42, then verifyWithRetry
completeVerify(c, m, status, t) ==
  [cache |-> addToCache(c, m.email, Result(m.email, status, FALSE), t),
   m |-> afterResult(m, Result(m.email, status, FALSE), t)]

RECURSIVE RunImmediate(_, _, _, _)
\* verifyEmail returns invalid_format without waiting for anything: those
\* calls go on as soon as the running code has ended
RunImmediate(ms, k, c, t) ==
  IF k > Len(ms) THEN [cache |-> c, members |-> ms]
  ELSE IF ms[k].pc = "verifying" /\ ms[k].email # NotAString
          /\ ~isValidEmailFormat(ms[k].email)
    THEN LET next(r) == RunImmediate([ms EXCEPT ![k] = r.m], k + 1, r.cache, t)
         IN next(completeVerify(c, ms[k], "invalid_format", t))
  ELSE RunImmediate(ms, k + 1, c, t)

\* everything that runs before the next timer or network event
RunToSuspension(ms, c, rl, t) ==
  LET both(a, b) == [cache |-> b.cache, rl |-> a.rl, members |-> b.members]
      second(a) == both(a, RunImmediate(a.members, 1, a.cache, t))
  IN second(RunNew(ms, 1, c, rl, t))

RECURSIVE NewlySettled(_, _, _)
NewlySettled(old, new, k) ==
  IF k > Len(new) THEN <<>>
  ELSE (IF IsSettled(new[k]) /\ ~IsSettled(old[k]) THEN <<k>> ELSE <<>>)
         \o NewlySettled(old, new, k + 1)

Batch(i) == Slice(emails, i, batchSize)
Group(i, g) == Slice(Batch(i), g, concurrency)

\* processBatch lines 101-113: one result per member of the group
SettledResult(m) ==
  IF m.pc = "fulfilled" THEN m.value ELSE Literal(m.email, FALSE, "error")

\* results pushed as the members settle
GroupResults_completionOrder(ms, ord) == [k \in 1..Len(ms) |-> SettledResult(ms[ord[k]])]

\* the results of a settled group, by position
GroupResults(ms, ord) == [k \in 1..Len(ms) |-> SettledResult(ms[k])]

\* the group at offset g of the batch at offset i is started
LaunchGroup(i, g) ==
  LET started(fresh, r) ==
        /\ members' = r.members
        /\ cache' = r.cache
        /\ rateLimiter' = r.rl
        /\ order' = NewlySettled(fresh, r.members, 1)
      run(fresh) == started(fresh, RunToSuspension(fresh, cache, rateLimiter, now))
  IN /\ run([k \in 1..Len(Group(i, g)) |-> NewMember(Group(i, g)[k])])
     /\ bI' = i
     /\ gI' = g
     /\ bPc' = "group"

\* processBulkEmails is called
BulkStart ==
  /\ bPc = "start"
  /\ IF Len(emails) = 0
       THEN /\ bPc' = "done"
            /\ UNCHANGED <<bI, gI, members, order, cache, rateLimiter>>
       ELSE LaunchGroup(0, 0)
  /\ UNCHANGED <<emails, batchResults, results, bDeadline>>
  /\ UNCHANGED <<now, calls, lastRet, stored, rlLog, probeVars, framingVars, aliasVars, verifyVars, optionVars>>

\* verifyEmail answers member k of the group
MemberCompletes(k, status) ==
  /\ bPc = "group"
  /\ k \in 1..Len(members)
  /\ members[k].pc = "verifying"
  /\ status \in VerifyStatuses(members[k].email)
  /\ LET settled(r, ms) ==
           /\ cache' = r.cache
           /\ members' = ms
           /\ order' = order \o NewlySettled(members, ms, 1)
         answered(r) == settled(r, [members EXCEPT ![k] = r.m])
     IN answered(completeVerify(cache, members[k], status, now))
  /\ UNCHANGED <<emails, bPc, bI, gI, batchResults, results, bDeadline>>
  /\ UNCHANGED <<now, rateLimiter, calls, lastRet, stored, rlLog, probeVars, framingVars, aliasVars, verifyVars, optionVars>>

\* the backoff timer of member k fires: verifyWithRetry(email, attempt + 1)
RetryFires(k) ==
  /\ bPc = "group"
  /\ k \in 1..Len(members)
  /\ members[k].pc = "backoff"
  /\ now >= members[k].deadline
  /\ LET resumed(r) ==
           /\ members' = r.members
           /\ cache' = r.cache
           /\ rateLimiter' = r.rl
           /\ order' = order \o NewlySettled(members, r.members, 1)
     IN resumed(RunToSuspension([members EXCEPT ![k].pc = "new", ![k].attempt = @ + 1],
                                cache, rateLimiter, now))
  /\ UNCHANGED <<emails, bPc, bI, gI, batchResults, results, bDeadline>>
  /\ UNCHANGED <<now, calls, lastRet, stored, rlLog, probeVars, framingVars, aliasVars, verifyVars, optionVars>>

\* a group awaited with Promise.race: the first member to settle ends the wait
allSettled_race(ms) == \E k \in 1..Len(ms) : IsSettled(ms[k])

\* a group wait that is over only when every member has fulfilled
allSettled_fulfilled(ms) == \A k \in 1..Len(ms) : ms[k].pc = "fulfilled"

\* line 99: await Promise.allSettled(promises) is over
allSettled(ms) == \A k \in 1..Len(ms) : IsSettled(ms[k])

\* Promise.allSettled resolves: the group's results are pushed, then the
\* next group or the next batch is waited for, or the run returns
GroupSettled ==
  /\ bPc = "group"
  /\ allSettled(members)
  /\ LET br == batchResults \o GroupResults(members, order) IN
     IF gI + concurrency < Len(Batch(bI))
       THEN /\ batchResults' = br
            /\ bPc' = "group_delay"
            /\ bDeadline' = now + GroupDelayMs
            /\ UNCHANGED results
       ELSE /\ results' = results \o br
            /\ batchResults' = <<>>
            /\ IF bI + batchSize < Len(emails)
                 THEN bPc' = "batch_delay" /\ bDeadline' = now + interBatchDelay
                 ELSE bPc' = "done" /\ UNCHANGED bDeadline
  /\ members' = <<>>
  /\ order' = <<>>
  /\ UNCHANGED <<emails, bI, gI, advVars, probeVars, framingVars, aliasVars, verifyVars, optionVars>>

\* lines 65-70: batch.map((email) => ({email, isValid: false, status: "batch_error"}))
errorResults(batch) ==
  [j \in 1..Len(batch) |-> Literal(batch[j], FALSE, "batch_error")]

\* the catch block with results = errorResults
catchBatch_overwrites(res, batch) == errorResults(batch)

\* the catch block of processBulkEmails, lines 61-72
catchBatch(res, batch) == res \o errorResults(batch)

\* the awaited processBatch rejects when it is resumed after Promise.allSettled.
\* Nothing in processBatch throws on the inputs modelled here; the rejection
\* stands for a fault raised under it.  What processBatch had gathered is
\* lost with it, the catch block runs and the batch loop goes on.
BatchThrows ==
  /\ bPc = "group"
  /\ allSettled(members)
  /\ results' = catchBatch(results, Batch(bI))
  /\ batchResults' = <<>>
  /\ IF bI + batchSize < Len(emails)
       THEN bPc' = "batch_delay" /\ bDeadline' = now + interBatchDelay
       ELSE bPc' = "done" /\ UNCHANGED bDeadline
  /\ members' = <<>>
  /\ order' = <<>>
  /\ UNCHANGED <<emails, bI, gI, advVars, probeVars, framingVars, aliasVars, verifyVars, optionVars>>

\* the 500 ms between two groups are over
GroupDelayFires ==
  /\ bPc = "group_delay"
  /\ now >= bDeadline
  /\ LaunchGroup(bI, gI + concurrency)
  /\ UNCHANGED <<emails, batchResults, results, bDeadline>>
  /\ UNCHANGED <<now, calls, lastRet, stored, rlLog, probeVars, framingVars, aliasVars, verifyVars, optionVars>>

\* the delay between two batches is over
BatchDelayFires ==
  /\ bPc = "batch_delay"
  /\ now >= bDeadline
  /\ LaunchGroup(bI + batchSize, 0)
  /\ UNCHANGED <<emails, batchResults, results, bDeadline>>
  /\ UNCHANGED <<now, calls, lastRet, stored, rlLog, probeVars, framingVars, aliasVars, verifyVars, optionVars>>

PendingDeadlines ==
  {members[k].deadline : k \in {x \in 1..Len(members) : members[x].pc = "backoff"}}
    \cup (IF bPc \in {"group_delay", "batch_delay"} THEN {bDeadline} ELSE {})

\* time passes while verifyEmail is awaited
NetworkTime ==
  /\ \E k \in 1..Len(members) : members[k].pc = "verifying"
  /\ now + TickMs <= MaxNow
  /\ now' = now + TickMs
  /\ UNCHANGED <<cache, rateLimiter, calls, lastRet, stored, rlLog>>
  /\ UNCHANGED <<bulkVars, probeVars, framingVars, aliasVars, verifyVars, optionVars>>

\* time passes until the next timer is due
TimerTime ==
  /\ \E d \in PendingDeadlines : d > now
  /\ now' = Min({d \in PendingDeadlines : d > now})
  /\ UNCHANGED <<cache, rateLimiter, calls, lastRet, stored, rlLog>>
  /\ UNCHANGED <<bulkVars, probeVars, framingVars, aliasVars, verifyVars, optionVars>>

(***************************************************************************)
(* The 'data' handler on the bytes of the socket.  No encoding is set on   *)
(* the socket, so each 'data' event carries a Buffer and line 121 decodes  *)
(* it on its own with data.toString().  "lead" and "cont" are the two      *)
(* bytes of one two-byte UTF-8 character.                                  *)
(***************************************************************************)
MaxStream == 5   \* bytes delivered to one session
MaxRead == 3     \* bytes delivered by one 'data' event

FramingBytes == {"250", "txt", "CR", "LF", "lead", "cont"}
Reads == UNION {[1..n -> FramingBytes] : n \in 1..MaxRead}

RECURSIVE toString(_)
\* data.toString(): UTF-8 decoding of one Buffer.  A lead byte followed by
\* its continuation byte is one character; a lead byte without it (the
\* Buffer ends there) and a continuation byte without a lead byte each
\* decode to U+FFFD.
toString(bytes) ==
  IF bytes = <<>> THEN <<>>
  ELSE IF Head(bytes) = "lead"
    THEN IF Len(bytes) >= 2 /\ bytes[2] = "cont"
           THEN <<"char">> \o toString(SubSeq(bytes, 3, Len(bytes)))
           ELSE <<"U+FFFD">> \o toString(Tail(bytes))
  ELSE IF Head(bytes) = "cont" THEN <<"U+FFFD">> \o toString(Tail(bytes))
  ELSE <<Head(bytes)>> \o toString(Tail(bytes))

\* the lines the for loop hands to handleSmtpResponse: if (line.trim())
NonBlank(lines) == SelectSeq(lines, IsNonBlank)

\* socket.on("data") with the Buffer it is given, lines 120-134
Read(bytes) ==
  /\ ~sess.destroyed /\ ~ended
  /\ Len(stream) + Len(bytes) <= MaxStream
  /\ LET received(lines) ==
           /\ sess' = ProcessLines(CompleteLines(lines), sess, Len(sess.written))
           /\ response' = Remainder(lines)
           /\ framed' = framed \o NonBlank(CompleteLines(lines))
     IN received(SplitCRLF(response \o toString(bytes)))
  /\ stream' = stream \o bytes
  /\ UNCHANGED <<timerArmed, ended, closed, verifyVars, advVars, optionVars, aliasVars, bulkVars>>

(***************************************************************************)
(* The specifications.                                                     *)
(***************************************************************************)
ProbeInit ==
  /\ sess = NewSession
  /\ response = <<>>
  /\ timerArmed = TRUE
  /\ ended = FALSE
  /\ closed = FALSE
  /\ stream = <<>> /\ framed = <<>>
  /\ handed = <<>> /\ entryObj = [e \in Addresses |-> 0] /\ nextObj = 1
  /\ vEmail = <<>> /\ vPc = "done" /\ mxAnswer = NoAnswer /\ mxRecords = <<>>
  /\ vIdx = 0 /\ vResult = NoResult /\ mxLookups = 0 /\ probed = <<>>
  /\ now = 0 /\ cache = [e \in Addresses |-> NoEntry]
  /\ rateLimiter = [d \in Domains |-> <<>>] /\ calls = [p \in Callers |-> Idle]
  /\ lastRet = NoRet /\ stored = [e \in Addresses |-> NoEntry]
  /\ rlLog = [d \in Domains |-> <<>>]
  /\ domainLimit = maxRequestsPerDomain
  /\ emails = <<>> /\ bPc = "done" /\ bI = 0 /\ gI = 0 /\ batchResults = <<>>
  /\ results = <<>> /\ members = <<>> /\ order = <<>> /\ bDeadline = 0

ProbeNext ==
  \/ \E data \in Chunks : OnData(data)
  \/ OnError
  \/ OnTimer
  \/ OnSocketTimeout
  \/ OnEnd
  \/ OnClose

SpecProbe == ProbeInit /\ [][ProbeNext]_vars

\* The event loop runs a timer that is due, and a socket whose peer has
\* ended or that was destroyed emits 'close'.  Nothing obliges the server to
\* send, the connection to fail or the socket to stay idle.
SpecProbeLive == SpecProbe /\ WF_vars(OnTimer) /\ WF_vars(OnClose)

FramingNext == \E bytes \in Reads : Read(bytes)

\* the session of SpecProbe, fed by reads of bytes only
SpecFraming == ProbeInit /\ [][FramingNext]_vars

VerifyInit ==
  /\ vEmail \in Strings
  /\ vPc = "start"
  /\ mxAnswer = NoAnswer
  /\ mxRecords = <<>>
  /\ vIdx = 0
  /\ vResult = NoResult
  /\ mxLookups = 0
  /\ probed = <<>>
  /\ sess = NewSession /\ response = <<>> /\ timerArmed = FALSE
  /\ ended = FALSE /\ closed = TRUE
  /\ stream = <<>> /\ framed = <<>>
  /\ handed = <<>> /\ entryObj = [e \in Addresses |-> 0] /\ nextObj = 1
  /\ now = 0 /\ cache = [e \in Addresses |-> NoEntry]
  /\ rateLimiter = [d \in Domains |-> <<>>] /\ calls = [p \in Callers |-> Idle]
  /\ lastRet = NoRet /\ stored = [e \in Addresses |-> NoEntry]
  /\ rlLog = [d \in Domains |-> <<>>]
  /\ domainLimit = maxRequestsPerDomain
  /\ emails = <<>> /\ bPc = "done" /\ bI = 0 /\ gI = 0 /\ batchResults = <<>>
  /\ results = <<>> /\ members = <<>> /\ order = <<>> /\ bDeadline = 0

VerifyNext ==
  \/ CheckFormat
  \/ \E answer \in MxAnswers : LookupReturns(answer)
  \/ \E o \in ProbeOutcomes : ProbeSettles(o)

SpecVerify == VerifyInit /\ [][VerifyNext]_vars

AdvInit ==
  /\ now = 0
  /\ cache = [e \in Addresses |-> NoEntry]
  /\ rateLimiter = [d \in Domains |-> <<>>]
  /\ calls = [p \in Callers |-> Idle]
  /\ lastRet = NoRet
  /\ stored = [e \in Addresses |-> NoEntry]
  /\ rlLog = [d \in Domains |-> <<>>]
  /\ domainLimit = maxRequestsPerDomain
  /\ sess = NewSession /\ response = <<>> /\ timerArmed = FALSE
  /\ ended = FALSE /\ closed = TRUE
  /\ stream = <<>> /\ framed = <<>>
  /\ handed = <<>> /\ entryObj = [e \in Addresses |-> 0] /\ nextObj = 1
  /\ vEmail = <<>> /\ vPc = "done" /\ mxAnswer = NoAnswer /\ mxRecords = <<>>
  /\ vIdx = 0 /\ vResult = NoResult /\ mxLookups = 0 /\ probed = <<>>
  /\ emails = <<>> /\ bPc = "done" /\ bI = 0 /\ gI = 0 /\ batchResults = <<>>
  /\ results = <<>> /\ members = <<>> /\ order = <<>> /\ bDeadline = 0

AdvNext ==
  \/ \E p \in Callers, email \in Addresses \ {NotAString} : AdvCall(p, email)
  \/ \E p \in Callers, status \in PipelineStatuses \cup {"invalid_format"} :
       AdvComplete(p, status)
  \/ Tick

SpecAdv == AdvInit /\ [][AdvNext]_vars

AliasNext ==
  \/ \E p \in Callers, email \in Addresses \ {NotAString} : AliasCall(p, email)
  \/ \E p \in Callers, status \in PipelineStatuses \cup {"invalid_format"} :
       AliasComplete(p, status)
  \/ \E k \in 1..MaxObjects : CallerMutates(k)

\* the pipeline of SpecAdv with callers that write to what they were handed
SpecAlias == AdvInit /\ [][AliasNext]_vars

LimiterInit ==
  /\ now = 0
  /\ rateLimiter = [d \in Domains |-> <<>>]
  /\ rlLog = [d \in Domains |-> <<>>]
  /\ domainLimit = maxRequestsPerDomain
  /\ cache = [e \in Addresses |-> NoEntry]
  /\ calls = [p \in Callers |-> Idle]
  /\ lastRet = NoRet
  /\ stored = [e \in Addresses |-> NoEntry]
  /\ sess = NewSession /\ response = <<>> /\ timerArmed = FALSE
  /\ ended = FALSE /\ closed = TRUE
  /\ stream = <<>> /\ framed = <<>>
  /\ handed = <<>> /\ entryObj = [e \in Addresses |-> 0] /\ nextObj = 1
  /\ vEmail = <<>> /\ vPc = "done" /\ mxAnswer = NoAnswer /\ mxRecords = <<>>
  /\ vIdx = 0 /\ vResult = NoResult /\ mxLookups = 0 /\ probed = <<>>
  /\ emails = <<>> /\ bPc = "done" /\ bI = 0 /\ gI = 0 /\ batchResults = <<>>
  /\ results = <<>> /\ members = <<>> /\ order = <<>> /\ bDeadline = 0

LimiterNext ==
  \/ \E d \in Domains : RateCheck(d)
  \/ Tick

SpecLimiter == LimiterInit /\ [][LimiterNext]_vars

BulkInit ==
  /\ emails \in BulkInputs
  /\ bPc = "start"
  /\ bI = 0 /\ gI = 0
  /\ batchResults = <<>> /\ results = <<>>
  /\ members = <<>> /\ order = <<>>
  /\ bDeadline = 0
  /\ now = 0
  /\ cache = [e \in Addresses |-> NoEntry]
  /\ rateLimiter = [d \in Domains |-> <<>>]
  /\ calls = [p \in Callers |-> Idle]
  /\ lastRet = NoRet
  /\ stored = [e \in Addresses |-> NoEntry]
  /\ rlLog = [d \in Domains |-> <<>>]
  /\ domainLimit = maxRequestsPerDomain
  /\ sess = NewSession /\ response = <<>> /\ timerArmed = FALSE
  /\ ended = FALSE /\ closed = TRUE
  /\ stream = <<>> /\ framed = <<>>
  /\ handed = <<>> /\ entryObj = [e \in Addresses |-> 0] /\ nextObj = 1
  /\ vEmail = <<>> /\ vPc = "done" /\ mxAnswer = NoAnswer /\ mxRecords = <<>>
  /\ vIdx = 0 /\ vResult = NoResult /\ mxLookups = 0 /\ probed = <<>>

BulkNext ==
  \/ BulkStart
  \/ \E k \in 1..concurrency, status \in PipelineStatuses : MemberCompletes(k, status)
  \/ \E k \in 1..concurrency : RetryFires(k)
  \/ GroupSettled
  \/ BatchThrows
  \/ GroupDelayFires
  \/ BatchDelayFires
  \/ NetworkTime
  \/ TimerTime

SpecBulk == BulkInit /\ [][BulkNext]_vars

\* An orchestrator call returns, the code awaiting a settled group is
\* resumed, the clock reaches the next deadline.
BulkResumes ==
  \/ \E k \in 1..concurrency, status \in PipelineStatuses : MemberCompletes(k, status)
  \/ GroupSettled
  \/ BatchThrows
  \/ TimerTime

\* processBulkEmails has been called or a timer of the run is due: the guards
\* of BulkStart, RetryFires, GroupDelayFires and BatchDelayFires
BulkCallDue ==
  \/ bPc = "start"
  \/ bPc \in {"group_delay", "batch_delay"} /\ now >= bDeadline
  \/ /\ bPc = "group"
     /\ \E k \in 1..Len(members) : members[k].pc = "backoff" /\ now >= members[k].deadline

\* the call or the timer callback runs
BulkCallRuns ==
  \/ BulkStart
  \/ \E k \in 1..concurrency : RetryFires(k)
  \/ GroupDelayFires
  \/ BatchDelayFires

\* The event loop does not stop while something is left to run: weak
\* fairness of BulkResumes and of BulkCallRuns, the latter written out with
\* its guard BulkCallDue, which is when it is enabled.  Which step comes
\* next, and how long an orchestrator call takes, is left open.
SpecBulkLive ==
  /\ SpecBulk
  /\ WF_vars(BulkResumes)
  /\ ([]<>(~BulkCallDue) \/ []<><<BulkCallRuns>>_vars)

\* lists in which one address occurs again and again
DuplicateInputs == {[k \in 1..n |-> A1] : n \in 2..MaxEmails}

\* the run of SpecBulk over such a list, with a verifier whose limiter admits
\* a whole group of one domain, as the processor's own settings do
\* (maxRequestsPerDomain 5, concurrency 3)
DuplicatesInit ==
  /\ emails \in DuplicateInputs
  /\ bPc = "start"
  /\ bI = 0 /\ gI = 0
  /\ batchResults = <<>> /\ results = <<>>
  /\ members = <<>> /\ order = <<>>
  /\ bDeadline = 0
  /\ now = 0
  /\ cache = [e \in Addresses |-> NoEntry]
  /\ rateLimiter = [d \in Domains |-> <<>>]
  /\ calls = [p \in Callers |-> Idle]
  /\ lastRet = NoRet
  /\ stored = [e \in Addresses |-> NoEntry]
  /\ rlLog = [d \in Domains |-> <<>>]
  /\ domainLimit = concurrency
  /\ sess = NewSession /\ response = <<>> /\ timerArmed = FALSE
  /\ ended = FALSE /\ closed = TRUE
  /\ stream = <<>> /\ framed = <<>>
  /\ handed = <<>> /\ entryObj = [e \in Addresses |-> 0] /\ nextObj = 1
  /\ vEmail = <<>> /\ vPc = "done" /\ mxAnswer = NoAnswer /\ mxRecords = <<>>
  /\ vIdx = 0 /\ vResult = NoResult /\ mxLookups = 0 /\ probed = <<>>

SpecDuplicates == DuplicatesInit /\ [][BulkNext]_vars

(***************************************************************************)
(* Properties of a probe session (SpecProbe).                              *)
(***************************************************************************)
Settled == sess.outcome.kind # "pending"

\* C1: a probe session settles at most once.  Whatever the order of reply
\* data, socket error, timer expiry, socket timeout and close, resolve or
\* reject is reached by one event at most, and a step taken on a settled
\* session leaves its outcome as the first settlement made it.
C1_SettlesAtMostOnce ==
  [][/\ sess'.settleCalls <= 1
     /\ sess'.settleCalls >= sess.settleCalls
     /\ Settled => sess'.outcome = sess.outcome
     /\ sess'.isResolved <=> sess'.outcome.kind # "pending"]_vars

\* a resolved session on which a later event tried to settle again
C1_Witness ==
  /\ sess.outcome.kind = "resolved"
  /\ sess.lateAttempt
  /\ sess.settleCalls = 1
  /\ ~timerArmed

\* C2: in every reachable state a settled session has a destroyed socket:
\* the step that settles it, whichever event it is, releases the connection.
C2_SettledIsDestroyed ==
  (Settled \/ sess.isResolved) => sess.destroyed

\* a session settled by a classified reply, before 'close' was emitted
C2_Witness ==
  /\ sess.outcome.kind = "resolved"
  /\ sess.outcome.status = "valid"
  /\ sess.destroyed
  /\ ~closed

(***************************************************************************)
(* Properties of the bulk processor (SpecBulk).                            *)
(***************************************************************************)
\* C3: processBulkEmails answers position by position.  The results gathered
\* so far, those of the running batch included, are the outcomes of the
\* inputs at the same positions (equal email fields) whatever the order in
\* which the members of a group completed, and the returned sequence is as
\* long as the input: one outcome for every address.
C3_ResultsMatchInput ==
  /\ Len(results) + Len(batchResults) <= Len(emails)
  /\ \A i \in 1..Len(results) : results[i].email = emails[i]
  /\ \A j \in 1..Len(batchResults) :
        bI + j <= Len(emails) /\ batchResults[j].email = emails[bI + j]
  /\ bPc = "done" => Len(results) = Len(emails)

\* a finished run of MaxEmails addresses whose second address, malformed,
\* was answered before verifyEmail answered for the first
C3_Witness ==
  /\ bPc = "done"
  /\ Len(emails) = MaxEmails
  /\ Len(results) = MaxEmails
  /\ emails[1] # emails[2]
  /\ results[1].status = "valid"
  /\ results[2].status = "invalid_format"

AllTemporary(m) ==
  \A i \in 1..Len(m.statuses) : m.statuses[i] = "temporary_failure"

\* C4: a temporary_failure is retried at most retryAttempts times with
\* strictly increasing waits, and stays temporary_failure when the retries
\* are used up.  For a member whose pipeline answered temporary_failure on
\* every attempt: the pipeline ran at most retryAttempts + 1 times, every
\* wait is longer than the one before, and once it has settled it ran
\* retryAttempts + 1 times and reports temporary_failure.
C4_TemporaryFailureRetries ==
  \A k \in 1..Len(members) :
    LET m == members[k] IN
    AllTemporary(m) =>
      /\ Len(m.statuses) <= retryAttempts + 1
      /\ m.attempt <= retryAttempts + 1
      /\ Len(m.waits) <= retryAttempts
      /\ \A i \in 1..Len(m.waits) : \A j \in 1..Len(m.waits) :
            i < j => m.waits[i] < m.waits[j]
      /\ m.pc # "rejected"
      /\ m.pc = "fulfilled" /\ m.statuses # <<>> =>
            /\ Len(m.statuses) = retryAttempts + 1
            /\ Len(m.waits) = retryAttempts
            /\ SettledResult(m).status = "temporary_failure"

\* a member that settled after retryAttempts retries, each temporary_failure
C4_Witness ==
  \E k \in 1..Len(members) :
    /\ members[k].pc = "fulfilled"
    /\ Len(members[k].statuses) = retryAttempts + 1
    /\ AllTemporary(members[k])
    /\ Len(members[k].waits) >= 2

(***************************************************************************)
(* Properties of the rate limiter (SpecLimiter).                           *)
(***************************************************************************)
\* call i of the log found no admitted timestamp inside its window
WindowEmptyAt(log, i) ==
  \A h \in 1..(i - 1) : log[h].ok => log[i].at - log[h].at >= rateLimitWindow

\* the admitted calls up to call j that lie inside the window that ends at j
AdmittedInWindow(log, j) ==
  {h \in 1..j : log[h].ok /\ log[j].at - log[h].at < rateLimitWindow}

\* C5: for a domain whose window is empty at some call, of the calls made
\* less than rateLimitWindow after that call exactly the first
\* maxRequestsPerDomain return true and the later ones false; a call made
\* when rateLimitWindow has elapsed since every admitted timestamp returns
\* true; and no trailing window ever holds more than maxRequestsPerDomain
\* admitted timestamps of one domain.
C5_SlidingWindow ==
  \A d \in Domains :
    LET log == rlLog[d] IN
    /\ \A i \in 1..Len(log) : \A j \in i..Len(log) :
          WindowEmptyAt(log, i) /\ log[j].at - log[i].at < rateLimitWindow
            => (log[j].ok <=> j - i + 1 <= maxRequestsPerDomain)
    /\ \A j \in 1..Len(log) : WindowEmptyAt(log, j) => log[j].ok
    /\ \A j \in 1..Len(log) :
          Cardinality(AdmittedInWindow(log, j)) <= maxRequestsPerDomain
    /\ Len(ValidRequests(rateLimiter[d], now)) <= maxRequestsPerDomain

\* a domain that was admitted, then refused inside the window, then admitted
\* again once the window had elapsed
C5_Witness ==
  \E d \in Domains : \E i \in 1..Len(rlLog[d]) :
    /\ i + 2 <= Len(rlLog[d])
    /\ rlLog[d][i].ok
    /\ ~rlLog[d][i + 1].ok
    /\ rlLog[d][i + 1].at - rlLog[d][i].at < rateLimitWindow
    /\ rlLog[d][i + 2].ok
    /\ rlLog[d][i + 2].at - rlLog[d][i].at >= rateLimitWindow

(***************************************************************************)
(* Properties of the cache (SpecAdv).                                      *)
(***************************************************************************)
\* C6: a pipeline read of an address made less than cacheExpiry after its
\* outcome was stored returns that outcome with fromCache = true and leaves
\* the entry alone; a read made cacheExpiry or more after the store is not
\* answered from the cache and leaves no entry behind, the expired entry
\* being removed by that read.
C6_CacheTtl ==
  [][lastRet'.kind # "none" =>
       LET e == lastRet'.email IN
       IF stored[e].present /\ now - stored[e].timestamp < cacheExpiry
         THEN /\ lastRet'.kind = "return"
              /\ lastRet'.value = [stored[e].result EXCEPT !.fromCache = TRUE]
              /\ cache[e] = stored[e]
              /\ cache'[e] = cache[e]
         ELSE /\ ~lastRet'.value.fromCache
              /\ ~cache'[e].present
              /\ lastRet'.evicted <=> cache[e].present]_vars

\* a read that found its entry expired and removed it
C6_Witness ==
  /\ lastRet.kind # "none"
  /\ lastRet.evicted
  /\ stored[lastRet.email].present
  /\ now - stored[lastRet.email].timestamp >= cacheExpiry
  /\ ~cache[lastRet.email].present

(***************************************************************************)
(* Properties of the orchestrator (SpecVerify).                            *)
(***************************************************************************)
LacksAt(email) == \A k \in 1..Len(email) : email[k] # "@"

\* no "." behind the first "@"
LacksDotAfterAt(email) ==
  \E i \in 1..Len(email) :
    /\ email[i] = "@"
    /\ \A k \in 1..(i - 1) : email[k] # "@"
    /\ \A k \in (i + 1)..Len(email) : email[k] # "."

\* C7: for an address without "@", or without "." in the part after the
\* "@", verifyEmail starts no MX lookup and no probe, and what it returns is
\* invalid_format with isValid false.
C7_MalformedIsInvalidFormat ==
  LacksAt(vEmail) \/ LacksDotAfterAt(vEmail) =>
    /\ mxLookups = 0
    /\ probed = <<>>
    /\ vPc \in {"start", "done"}
    /\ vPc = "done" => vResult = Outcome("invalid_format", FALSE)

\* verifyEmail has returned invalid_format for an address with an "@" and a
\* domain without "."
C7_Witness ==
  /\ vPc = "done"
  /\ ~LacksAt(vEmail)
  /\ LacksDotAfterAt(vEmail)
  /\ \E k \in 1..Len(vEmail) : vEmail[k] = "."
  /\ vResult.status = "invalid_format"

ProbeFailed(p) == p.outcome \in {"rejected", "connection_failed"}

\* C8: the MX hosts are probed one at a time in the order of the record
\* list.  A host is contacted only after every host before it failed (its
\* probe rejected or gave connection_failed); the first probe that resolves
\* with another status is the last one made and supplies the result; when
\* every host failed the result is connection_failed.
C8_Failover ==
  /\ Len(probed) <= Len(mxRecords)
  /\ \A k \in 1..Len(probed) :
        /\ probed[k].exchange = mxRecords[k].exchange
        /\ k < Len(probed) => ProbeFailed(probed[k])
        /\ probed[k].outcome = "inflight" <=> (k = Len(probed) /\ vPc = "probing")
  /\ vPc = "probing" => probed # <<>> /\ vIdx = Len(probed)
  /\ vPc = "done" /\ probed # <<>> =>
        IF ProbeFailed(probed[Len(probed)])
          THEN /\ Len(probed) = Len(mxRecords)
               /\ vResult = Outcome("connection_failed", FALSE)
          ELSE /\ vResult.status = probed[Len(probed)].outcome
               /\ vResult.status \in SessionStatuses

\* the first host's probe was rejected and the second host's reply is the
\* result
C8_Witness ==
  /\ vPc = "done"
  /\ Len(probed) = 2
  /\ probed[1].outcome = "rejected"
  /\ probed[2].outcome = "invalid"
  /\ vResult = Outcome("invalid", FALSE)

\* C9: the hosts are contacted in non-decreasing priority order, and a host
\* is probed only when every host of the answer with a strictly lower
\* priority number has been probed before it and has failed.
C9_PriorityOrder ==
  /\ \A i \in 1..Len(probed) : \A j \in i..Len(probed) :
        probed[i].priority <= probed[j].priority
  /\ \A k \in 1..Len(probed) : \A n \in 1..Len(mxAnswer.records) :
        mxAnswer.records[n].priority < probed[k].priority =>
          \E h \in 1..(k - 1) :
            /\ probed[h].exchange = mxAnswer.records[n].exchange
            /\ ProbeFailed(probed[h])

\* resolveMx answered with the higher priority number first, and both hosts
\* were probed
C9_Witness ==
  /\ Len(mxAnswer.records) = 2
  /\ mxAnswer.records[1].priority > mxAnswer.records[2].priority
  /\ Len(probed) = 2
  /\ probed[1].exchange = mxAnswer.records[2].exchange
  /\ probed[2].exchange = mxAnswer.records[1].exchange

\* C10: when the MX lookup fails or gives no records, verifyEmail returns
\* no_mx_record with isValid false, not error, and has started no probe.
C10_NoMxRecord ==
  vPc = "done" /\ mxLookups > 0 /\ (~mxAnswer.ok \/ mxAnswer.records = <<>>) =>
    /\ vResult = Outcome("no_mx_record", FALSE)
    /\ probed = <<>>

\* verifyEmail has returned after a lookup that failed
C10_Witness ==
  /\ vPc = "done"
  /\ mxLookups = 1
  /\ ~mxAnswer.ok
  /\ vResult.status = "no_mx_record"
  /\ isValidEmailFormat(vEmail)

(***************************************************************************)
(* Properties of the reply handling of a probe session (SpecProbe).        *)
(***************************************************************************)
\* the status the RCPT stage gives a reply code
RcptStatus(code) ==
  IF code = 250 THEN "valid"
  ELSE IF code >= 500 /\ code <= 599 THEN "invalid"
  ELSE IF code >= 400 /\ code <= 499 THEN "temporary_failure"
  ELSE "unknown_response"

\* C11: a reply line handled in the rcpt_to step of an unsettled session
\* decides the outcome by its code alone: 250 gives valid with isValid true,
\* 500..599 invalid, 400..499 temporary_failure, any other code and a line
\* without a code unknown_response, and the outcome carries the raw line as
\* smtpResponse.
C11_RcptClassification ==
  \A k \in 1..Len(sess.fed) :
    sess.fed[k].step = "rcpt_to" =>
      /\ sess.outcome.kind = "resolved"
      /\ sess.outcome.status = RcptStatus(sess.fed[k].code)
      /\ sess.outcome.isValid = (sess.fed[k].code = 250)
      /\ sess.fed[k].carried
      /\ k = Len(sess.fed)

\* a line without a reply code was handled in the rcpt_to step
C11_Witness ==
  /\ sess.fed # <<>>
  /\ sess.fed[Len(sess.fed)].step = "rcpt_to"
  /\ sess.fed[Len(sess.fed)].code = NaN
  /\ sess.outcome.status = "unknown_response"

IsValidIffValid(o) == o.isValid <=> (o.status = "valid")

BatchErrorStep ==
  /\ Len(results') > Len(results)
  /\ results'[Len(results')].status = "batch_error"

\* C13: when processing a batch throws, one batch_error outcome is appended
\* for every address of the batch, in input order, the outcomes gathered for
\* the earlier batches stay as they are, the loop goes on to the delay before
\* the next batch or returns when there is none, and the run that returns has
\* one outcome for every address.
C13_BatchError ==
  [][/\ BatchErrorStep =>
          /\ Len(results) = bI
          /\ SubSeq(results', 1, Len(results)) = results
          /\ Len(results') = bI + Len(Batch(bI))
          /\ \A j \in 1..Len(Batch(bI)) :
                /\ results'[bI + j].email = emails[bI + j]
                /\ results'[bI + j].status = "batch_error"
                /\ ~results'[bI + j].isValid
          /\ bPc' = IF bI + batchSize < Len(emails) THEN "batch_delay" ELSE "done"
     /\ bPc' = "done" => Len(results') = Len(emails)]_vars

\* a finished run whose first batch threw and whose second batch was answered
C13_Witness ==
  /\ bPc = "done"
  /\ Len(results) = MaxEmails
  /\ results[1].status = "batch_error"
  /\ results[MaxEmails].status # "batch_error"

(***************************************************************************)
(* Properties of the pipeline verifyEmailAdvanced (SpecAdv).               *)
(***************************************************************************)
\* the cache holds an unexpired entry for the address
Fresh(e) == cache[e].present /\ now - cache[e].timestamp < cacheExpiry

\* C14: a call of verifyEmailAdvanced that finds an unexpired cache entry
\* returns the cached outcome with fromCache true, leaves every rate-limit
\* window and the cache as they are and does not call verifyEmail (no MX
\* lookup, no probe).
C14_CacheHitFrame ==
  [][lastRet'.kind # "none" /\ Fresh(lastRet'.email) =>
       /\ lastRet'.kind = "return"
       /\ lastRet'.value = [cache[lastRet'.email].result EXCEPT !.fromCache = TRUE]
       /\ rateLimiter' = rateLimiter
       /\ cache' = cache
       /\ calls' = calls]_vars

\* a call answered from the cache while the window of its domain is full
C14_Witness ==
  /\ lastRet.kind = "return"
  /\ lastRet.value.fromCache
  /\ lastRet.value.status = "valid"
  /\ Len(ValidRequests(rateLimiter[DomainOf(lastRet.email)], now)) >= maxRequestsPerDomain

(***************************************************************************)
(* Properties of the pipeline under verifyWithRetry (SpecBulk).            *)
(***************************************************************************)
\* the limiter rejected the latest attempt of the member
LimiterRejected(m) == Len(m.statuses) > 0 /\ m.statuses[Len(m.statuses)] = "rate_limited"

\* a rate_limited attempt is the member's last one, it settles the member
\* with the literal of lines 28-33 without verifyEmail being awaited, and
\* rate_limited is neither stored in the cache nor answered from it
RejectedIsFinal ==
  /\ \A k \in 1..Len(members) : \A i \in 1..Len(members[k].statuses) :
        members[k].statuses[i] = "rate_limited" =>
          /\ i = Len(members[k].statuses)
          /\ members[k].pc = "fulfilled"
          /\ members[k].value = Literal(members[k].email, FALSE, "rate_limited")
  /\ \A e \in Addresses : cache[e].present => cache[e].result.status # "rate_limited"
  /\ \A i \in 1..Len(results) : results[i].fromCache => results[i].status # "rate_limited"

\* the rejected call removed the address's own expired entry and did nothing
\* else to the cache
EvictedOwnExpired(m) ==
  /\ m.cacheIn[m.email].present
  /\ m.calledAt - m.cacheIn[m.email].timestamp >= cacheExpiry
  /\ m.cacheOut = [m.cacheIn EXCEPT ![m.email] = NoEntry]

\* C15 as stated: a call that the rate limiter rejects leaves the cache
\* unchanged
C15_RejectedLeavesCache ==
  /\ RejectedIsFinal
  /\ \A k \in 1..Len(members) : LimiterRejected(members[k]) => members[k].cacheOut = members[k].cacheIn

\* C15, amended: when the rate limiter rejects the domain the pipeline
\* returns rate_limited at once, verifyEmail is not called and verifyWithRetry
\* makes no further attempt; rate_limited is never stored in the cache nor
\* answered from it, and the call adds or alters no cache entry: the only
\* change it can make to the cache is the removal of the address's own
\* expired entry by the cache read that precedes the rate-limit check.
C15_RejectedStoresNothing ==
  /\ RejectedIsFinal
  /\ \A k \in 1..Len(members) : LimiterRejected(members[k]) =>
        \/ members[k].cacheOut = members[k].cacheIn
        \/ EvictedOwnExpired(members[k])

\* a rejected call that found an expired entry of its address in the cache
C15_Witness ==
  \E k \in 1..Len(members) :
    /\ LimiterRejected(members[k])
    /\ members[k].pc = "fulfilled"
    /\ EvictedOwnExpired(members[k])
    /\ ~cache[members[k].email].present

\* member k is resumed for a retry after an attempt that ended in
\* temporary_failure
RetriesTemporary(k) ==
  /\ Len(members') = Len(members)
  /\ k \in 1..Len(members)
  /\ members[k].pc = "backoff"
  /\ members[k].statuses[Len(members[k].statuses)] = "temporary_failure"
  /\ members'[k].attempt = members[k].attempt + 1

\* C16: a retry made after an attempt that ended in temporary_failure is not
\* answered from the result cache: it consults the rate limiter, and unless
\* the limiter rejects it, verifyEmail is called again (a new probe).
C16_RetryReprobes ==
  [][\A k \in 1..Len(members) :
       RetriesTemporary(k) =>
         \/ members'[k].pc = "verifying"
         \/ LimiterRejected(members'[k])]_vars

\* what the run must record for an address whose pipeline call throws, and
\* for a malformed string next to it (invalid_format, or rate_limited when
\* the window of its domain is full)
RecordedAs(email, r) ==
  /\ email = NotAString => r = Literal(NotAString, FALSE, "error")
  /\ email = Bad => r.email = Bad /\ r.status \in {"invalid_format", "rate_limited"}

\* C17: a member whose pipeline call throws on every attempt is attempted at
\* most retryAttempts + 1 times and is then rejected; processBatch records
\* for it exactly one outcome with status error at its position, and the
\* other members of the group get the outcome they get without it.
C17_ThrowOnEveryAttempt ==
  /\ \A k \in 1..Len(members) :
        LET m == members[k] IN
        /\ m.email = NotAString =>
              /\ \A i \in 1..Len(m.statuses) : m.statuses[i] = "throw"
              /\ Len(m.statuses) <= retryAttempts + 1
              /\ m.attempt <= retryAttempts + 1
              /\ m.pc \in {"backoff", "rejected"}
              /\ m.pc = "rejected" =>
                    /\ Len(m.statuses) = retryAttempts + 1
                    /\ Len(m.waits) = retryAttempts
              /\ IsSettled(m) => RecordedAs(m.email, SettledResult(m))
        /\ m.email = Bad =>
              /\ m.pc = "fulfilled"
              /\ Len(m.statuses) = 1
              /\ RecordedAs(m.email, SettledResult(m))
  /\ Len(results) + Len(batchResults) <= Len(emails)
  /\ \A j \in 1..Len(batchResults) : RecordedAs(emails[bI + j], batchResults[j])
  /\ \A i \in 1..Len(results) :
        results[i].status # "batch_error" => RecordedAs(emails[i], results[i])
  /\ bPc = "done" => Len(results) = Len(emails)

\* a finished run in which a value that is no string shared its group with
\* a malformed string: the one is recorded as error, the other as
\* invalid_format
C17_Witness ==
  /\ bPc = "done"
  /\ Len(emails) >= 2
  /\ emails[1] = Bad /\ emails[2] = NotAString
  /\ Len(results) = Len(emails)
  /\ results[1].status = "invalid_format"
  /\ results[2] = Literal(NotAString, FALSE, "error")

(***************************************************************************)
(* Properties of the stages of the probe session (SpecProbe).              *)
(***************************************************************************)
\* C18: for every reply line that an unsettled session handles in step
\* rcpt_to, whatever its code, the command written in answer to it is QUIT
\* and the session is settled with that QUIT already written.
C18_QuitBeforeSettle ==
  \A k \in 1..Len(sess.fed) :
    sess.fed[k].step = "rcpt_to" =>
      /\ Len(sess.written) > sess.fed[k].writes
      /\ sess.written[sess.fed[k].writes + 1] = "QUIT"
      /\ Settled
      /\ sess.settleCalls = 1
      /\ sess.writesAtSettle = sess.fed[k].writes + 1

\* a reply to RCPT TO that is neither 250 nor 4xx nor 5xx has been handled
C18_Witness ==
  \E k \in 1..Len(sess.fed) :
    /\ sess.fed[k].step = "rcpt_to"
    /\ sess.fed[k].code \notin {250} \cup (400..599)
    /\ sess.outcome.kind = "resolved"
    /\ sess.outcome.status = "unknown_response"
    /\ sess.written[Len(sess.written)] = "QUIT"

\* the status a reply with this code settles the session with in a step
\* before rcpt_to, "" where it does not settle it
RejectionOf(step, code) ==
  CASE step = "connect" /\ code # 220 -> "connection_rejected"
    [] step = "helo" /\ code # 250 -> "handshake_failed"
    [] step = "mail_from" /\ code # 250 -> "mail_from_rejected"
    [] OTHER -> ""

\* the command sent in answer to a reply that does not settle the session
AnswerTo(step, code) ==
  CASE step = "connect" -> "EHLO"
    [] step = "ehlo" -> IF code = 250 THEN "MAIL FROM" ELSE "HELO"
    [] step = "helo" -> "MAIL FROM"
    [] OTHER -> "RCPT TO"

\* C19: a line handled by an unsettled session in step connect, helo or
\* mail_from settles it exactly when its code is not 220, not 250 and not
\* 250: the outcome is then connection_rejected, handshake_failed or
\* mail_from_rejected with the line as smtpResponse, and no command is
\* written in answer (no EHLO at all after a rejected greeting, no RCPT TO
\* at all after a rejected MAIL FROM).  Any other line handled before
\* rcpt_to is answered with the next command and settles nothing, so these
\* three statuses arise in no other way.
C19_EarlyRejections ==
  /\ \A k \in 1..Len(sess.fed) :
        LET f == sess.fed[k] IN
        f.step # "rcpt_to" =>
          IF RejectionOf(f.step, f.code) # ""
            THEN /\ sess.outcome.kind = "resolved"
                 /\ sess.outcome.status = RejectionOf(f.step, f.code)
                 /\ ~sess.outcome.isValid
                 /\ f.carried
                 /\ k = Len(sess.fed)
                 /\ sess.writesAtSettle = f.writes
                 /\ f.step = "connect" => \A w \in 1..Len(sess.written) : sess.written[w] # "EHLO"
                 /\ f.step = "mail_from" =>
                       \A w \in 1..Len(sess.written) : sess.written[w] # "RCPT TO"
            ELSE /\ ~f.carried
                 /\ Len(sess.written) > f.writes
                 /\ sess.written[f.writes + 1] = AnswerTo(f.step, f.code)
                 /\ k = Len(sess.fed) /\ sess.outcome.kind = "resolved" =>
                       sess.outcome.status \notin
                         {"connection_rejected", "handshake_failed", "mail_from_rejected"}
  /\ sess.outcome.kind = "resolved"
       /\ sess.outcome.status \in {"connection_rejected", "handshake_failed", "mail_from_rejected"}
       => /\ sess.fed # <<>>
          /\ RejectionOf(sess.fed[Len(sess.fed)].step, sess.fed[Len(sess.fed)].code)
               = sess.outcome.status

\* MAIL FROM, reached through the HELO fallback, was rejected
C19_Witness ==
  /\ Len(sess.fed) = 4
  /\ sess.fed[2].step = "ehlo" /\ sess.fed[2].code # 250
  /\ sess.fed[3].step = "helo" /\ sess.fed[3].code = 250
  /\ sess.fed[4].step = "mail_from" /\ sess.fed[4].code # 250
  /\ sess.fed[4].carried
  /\ sess.outcome.kind = "resolved"
  /\ sess.outcome.status = "mail_from_rejected"

\* how often MAIL FROM has been written to the socket
MailFromCount == Cardinality({w \in 1..Len(sess.written) : sess.written[w] = "MAIL FROM"})

\* C20: a reply handled in step ehlo never settles the session.  With code
\* 250 MAIL FROM is sent and the next line is handled in step mail_from;
\* with any other code HELO is sent and the next line is handled in step
\* helo, and if that line has code 250, MAIL FROM is sent and the line after
\* it is handled in step mail_from as well.  MAIL FROM is written at most
\* once, and exactly once when the EHLO or the HELO reply had code 250.
C20_HeloFallback ==
  /\ \A k \in 1..Len(sess.fed) :
        LET f == sess.fed[k] IN
        f.step = "ehlo" =>
          /\ ~f.settles /\ ~f.carried
          /\ Len(sess.written) > f.writes
          /\ sess.written[f.writes + 1] = IF f.code = 250 THEN "MAIL FROM" ELSE "HELO"
          /\ k < Len(sess.fed) =>
                /\ sess.fed[k + 1].step = IF f.code = 250 THEN "mail_from" ELSE "helo"
                /\ sess.fed[k + 1].writes = f.writes + 1
          /\ f.code # 250 /\ k < Len(sess.fed) /\ sess.fed[k + 1].code = 250 =>
                /\ ~sess.fed[k + 1].settles
                /\ sess.written[f.writes + 2] = "MAIL FROM"
                /\ k + 1 < Len(sess.fed) =>
                      /\ sess.fed[k + 2].step = "mail_from"
                      /\ sess.fed[k + 2].writes = f.writes + 2
  /\ MailFromCount <= 1
  /\ (\E k \in 1..Len(sess.fed) :
         sess.fed[k].step \in {"ehlo", "helo"} /\ sess.fed[k].code = 250) => MailFromCount = 1

\* EHLO was refused, HELO and MAIL FROM were accepted and RCPT TO was sent
C20_Witness ==
  /\ Len(sess.fed) >= 4
  /\ sess.fed[2].step = "ehlo" /\ sess.fed[2].code # 250
  /\ sess.fed[3].step = "helo" /\ sess.fed[3].code = 250
  /\ sess.fed[4].step = "mail_from" /\ sess.fed[4].code = 250
  /\ Len(sess.written) >= 4
  /\ SubSeq(sess.written, 1, 4) = <<"EHLO", "HELO", "MAIL FROM", "RCPT TO">>
  /\ MailFromCount = 1

(***************************************************************************)
(* Properties of the line framing (SpecFraming).                           *)
(***************************************************************************)
\* the pieces of the whole stream, had it arrived in one read
WholeStream == SplitCRLF(toString(stream))

\* the stream is made of one-byte characters only
IsAscii == \A k \in 1..Len(stream) : stream[k] \notin {"lead", "cont"}

\* C21: however the stream is cut into reads, the lines handed to the
\* transition rules are the complete non-blank lines of the stream, each
\* once and in order, and the buffer holds the trailing partial line.
C21_FramingIgnoresChunking ==
  /\ framed = NonBlank(CompleteLines(WholeStream))
  /\ response = Remainder(WholeStream)

\* what does hold: the lines are cut at the same places and handled once
\* each, in order, and for a stream of one-byte characters they are the
\* same lines
FramingOfAscii ==
  /\ Len(framed) = Len(NonBlank(CompleteLines(WholeStream)))
  /\ Len(framed) = Len(sess.fed) + sess.lateLines
  /\ \A k \in 1..Len(framed) :
        ParseCode(framed[k]) = ParseCode(NonBlank(CompleteLines(WholeStream))[k])
  /\ IsAscii => C21_FramingIgnoresChunking

(***************************************************************************)
(* Properties of the scheduler's groups (SpecBulk).                        *)
(***************************************************************************)
\* the verifyWithRetry calls that have not settled
InFlight == {k \in 1..Len(members) : ~IsSettled(members[k])}

\* C22: at most `concurrency` pipelines are in flight, all of them members
\* of one group, and while one of them has not settled (a member waiting in
\* a backoff included) the run stays with that group: no result is pushed
\* and no member of a later group or batch is started.
C22_OneGroupAtATime ==
  [][/\ Cardinality(InFlight) <= concurrency
     /\ Len(members) <= concurrency
     /\ bPc # "group" => members = <<>>
     /\ InFlight # {} =>
           /\ bPc = "group" /\ bPc' = "group"
           /\ bI' = bI /\ gI' = gI
           /\ Len(members') = Len(members)
           /\ \A k \in 1..Len(members) : members'[k].email = members[k].email
           /\ batchResults' = batchResults /\ results' = results]_vars

\* a full group is held back by one member that waits in a backoff while
\* the others have settled and addresses are left to start
C22_Witness ==
  /\ Len(members) = concurrency
  /\ Cardinality(InFlight) = 1
  /\ \E k \in InFlight : members[k].pc = "backoff"
  /\ bI + gI + Len(members) < Len(emails)

(***************************************************************************)
(* Properties of concurrent pipelines (SpecAdv).                           *)
(***************************************************************************)
\* the admissions of the domain up to admission j that lie inside the
\* window ending with admission j
AdmissionsInWindow(d, j) ==
  {h \in 1..j : rlLog[d][h].ok /\ rlLog[d][j].at - rlLog[d][h].at < rateLimitWindow}

\* C23: whatever the interleaving of the pipelines in flight, no window of
\* a domain holds more than maxRequestsPerDomain admissions, and the list
\* the limiter keeps for the domain holds exactly the admissions of the
\* window that ends with the latest one: every admission is recorded in the
\* step that tested the window.
C23_WindowNeverOverfull ==
  \A d \in Domains :
    /\ \A j \in 1..Len(rlLog[d]) :
          Cardinality(AdmissionsInWindow(d, j)) <= maxRequestsPerDomain
    /\ Len(rateLimiter[d]) = Cardinality(AdmissionsInWindow(d, Len(rlLog[d])))
    /\ \A i \in 1..Len(rateLimiter[d]) :
          rateLimiter[d][i] = rlLog[d][Len(rlLog[d]) - Len(rateLimiter[d]) + i].at

\* while one caller awaits verifyEmail for an address of a domain whose
\* window it has filled, the call of another caller for another address of
\* that domain is refused
C23_Witness ==
  \E p \in Callers :
    /\ calls[p].pc = "verifying"
    /\ lastRet.kind = "return"
    /\ lastRet.value.status = "rate_limited"
    /\ lastRet.email # calls[p].email
    /\ DomainOf(lastRet.email) = DomainOf(calls[p].email)
    /\ Len(ValidRequests(rateLimiter[DomainOf(lastRet.email)], now)) = maxRequestsPerDomain

(***************************************************************************)
(* Properties of the cache's ownership of its entries (SpecAlias).         *)
(***************************************************************************)
\* a caller has written to an object it was handed
CallerWrote ==
  /\ Len(handed') = Len(handed)
  /\ handed' # handed

\* C24: when a caller writes to an outcome object the pipeline handed to
\* it, on a hit or on a miss, no cache entry changes: a later read of the
\* cache returns what it would have returned without the write.
C24_EntriesNotShared ==
  [][CallerWrote =>
       \A e \in Addresses :
         getFromCache(cache', e, now').result = getFromCache(cache, e, now).result]_vars

\* what does hold: the object handed out on a cache hit and the rate_limited
\* object are the caller's own; only an object that verifyEmail returned and
\* addToCache stored is shared with its entry
OnlyMissShared ==
  [][CallerWrote /\ (\E e \in Addresses : cache'[e] # cache[e]) =>
       \E k \in 1..Len(handed), e \in Addresses :
         /\ handed'[k] # handed[k]
         /\ entryObj[e] = handed[k].obj
         /\ ~handed[k].value.fromCache
         /\ handed[k].value.status # "rate_limited"]_vars

(***************************************************************************)
(* Termination of the probe session (SpecProbeLive).                       *)
(***************************************************************************)
\* C25: every probe session eventually settles, whatever the server sends
\* or fails to send: unless something else settles it first, the timer of
\* line 110 fires and rejects it, or, when the peer's 'end' has cleared the
\* timer, the 'close' that follows rejects it.
C25_EventuallySettles == <>(Settled /\ sess.destroyed)

\* the timer rejected a session to which the server never sent a line
C25_Witness ==
  /\ sess.outcome.kind = "rejected"
  /\ sess.outcome.status = "Connection timeout"
  /\ sess.fed = <<>> /\ sess.lateLines = 0
  /\ response = <<>>
  /\ ~ended

(***************************************************************************)
(* Termination of a bulk run (SpecBulkLive).                               *)
(***************************************************************************)
\* C26: when every orchestrator call returns, processBulkEmails returns for
\* every input list: the batch loop, the group loop and the retries of
\* verifyWithRetry all come to an end, whatever the pipeline answers, and
\* nothing is left waiting.
C26_BulkReturns == <>(bPc = "done" /\ members = <<>> /\ PendingDeadlines = {})

\* a run over several groups has returned with an address that was a
\* temporary_failure on every attempt
C26_Witness ==
  /\ bPc = "done"
  /\ Len(emails) > concurrency
  /\ Len(results) = Len(emails)
  /\ \E j \in 1..Len(results) : results[j].status = "temporary_failure"

\* a run over several groups has returned with a call that threw on every
\* attempt
C26_ReturnsAfterThrows ==
  /\ bPc = "done"
  /\ Len(emails) > concurrency
  /\ \E j \in 1..Len(results) : results[j].status = "error"

(***************************************************************************)
(* A settled session and the rest of the read (SpecProbe).                 *)
(***************************************************************************)
\* C27: once a probe session has settled, no further command is written to
\* its socket and its step stays what the pass of the loop that settled it
\* made it, also when the read that carried the settling line carries
\* further complete lines.
C27_SettledIsQuiet ==
  Settled => /\ Len(sess.written) = sess.writesAtSettle
             /\ sess.step = sess.stepAtSettle

\* across reads the claim holds: a settled session's socket is destroyed and
\* no later event writes a command or moves the step
C27_QuietAcrossEvents ==
  [][Settled => sess'.written = sess.written /\ sess'.step = sess.step]_vars

\* what the lines after the settling line of the same read do: each moves
\* the step by getNextStep and may have a command written
C27_LateLinesAct ==
  Settled /\ sess.lateLines = 0 =>
    Len(sess.written) = sess.writesAtSettle /\ sess.step = sess.stepAtSettle

(***************************************************************************)
(* Which line is taken for the reply to RCPT TO (SpecProbe).               *)
(***************************************************************************)
RcptStatuses == {"valid", "invalid", "temporary_failure", "unknown_response"}

\* C28: a session that reports a RCPT-stage outcome reports it from a line
\* that arrived after RCPT TO was written: the line that settled it was not
\* already received when the command before it was sent.
C28_RcptReplyAnswersRcpt ==
  sess.outcome.kind = "resolved" /\ sess.outcome.status \in RcptStatuses =>
    /\ sess.fed # <<>>
    /\ sess.fed[Len(sess.fed)].step = "rcpt_to"
    /\ ~sess.fed[Len(sess.fed)].early

\* what does hold: the line reported is the first one handled after
\* RCPT TO was written, whenever it arrived
C28_FirstLineAfterRcptWrite ==
  sess.outcome.kind = "resolved" /\ sess.outcome.status \in RcptStatuses =>
    /\ sess.fed # <<>>
    /\ LET last == sess.fed[Len(sess.fed)] IN
         /\ last.step = "rcpt_to" /\ last.carried
         /\ last.writes >= 1 /\ sess.written[last.writes] = "RCPT TO"
         /\ Len(sess.fed) >= 2 /\ sess.fed[Len(sess.fed) - 1].step = "mail_from"

(***************************************************************************)
(* A malformed address in the pipeline (SpecAdv).                          *)
(***************************************************************************)
Malformed(email) == email \in Addresses \ {NotAString} /\ ~isValidEmailFormat(email)

\* C29: verifyEmailAdvanced called with a malformed address that has no
\* cache entry ends with status invalid_format, whatever the limiter's
\* windows hold: such a call does not return any other status.
C29_MalformedIsInvalidFormat ==
  lastRet.kind = "return" /\ Malformed(lastRet.email) /\ ~lastRet.value.fromCache =>
    lastRet.value.status = "invalid_format"

\* what does hold: a malformed address ends rate_limited when the window of
\* its domain key is full and invalid_format otherwise, and only
\* invalid_format is ever cached for it
C29_InvalidFormatOrLimited ==
  /\ lastRet.kind = "return" /\ Malformed(lastRet.email) =>
        \/ lastRet.value.status = "invalid_format" /\ lastRet.value.fromCache
        \/ /\ lastRet.value.status = "rate_limited"
           /\ Len(rateLimiter[DomainOf(lastRet.email)]) >= maxRequestsPerDomain
  /\ \A e \in Addresses :
        Malformed(e) /\ cache[e].present => cache[e].result.status = "invalid_format"

(***************************************************************************)
(* One address several times in a run (SpecDuplicates).                    *)
(***************************************************************************)
\* member k of the group calls verifyEmail in this step
StartsVerify(k) ==
  /\ k \in 1..Len(members')
  /\ members'[k].pc = "verifying"
  /\ bPc = "group" => members[k].pc # "verifying"

\* C30: while no cache entry can have expired, verifyEmail is called at most
\* once for an address of the run: a call is made only when none was made
\* for the address before, neither one that has returned (its result is in
\* the cache) nor one still awaited by another member of the group.
C30_OneProbePerAddress ==
  [][now < cacheExpiry =>
       \A k \in 1..Len(members') :
         StartsVerify(k) =>
           /\ ~cache[members'[k].email].present
           /\ \A j \in 1..Len(members') :
                 j # k /\ members'[j].email = members'[k].email
                   => members'[j].pc # "verifying"]_vars

\* what does hold: verifyEmail is not called for an address whose earlier
\* call has returned
C30_NoProbeAfterReturn ==
  [][now < cacheExpiry =>
       \A k \in 1..Len(members') :
         StartsVerify(k) => ~cache[members'[k].email].present]_vars

(***************************************************************************)
(* The limiter's windows, domain by domain (SpecLimiter).                  *)
(***************************************************************************)
\* checkRateLimit(d) is called in this step
CheckedNow(d) == Len(rlLog'[d]) = Len(rlLog[d]) + 1

\* what that call returned
AdmittedNow(d) == rlLog'[d][Len(rlLog'[d])].ok

\* C31: the budgets are independent per domain.  A checkRateLimit call for
\* domain d, admitted or rejected, leaves the stored window of every other
\* domain as it was; a rejected call leaves the window of d as it was too
\* (no timestamp, not even the pruned list, is stored); an admitted call
\* stores the pruned window of d with the present time appended; and whether
\* the call is admitted depends on the window of d alone, whatever the
\* windows of the other domains hold.
C31_BudgetsPerDomain ==
  [][\A d \in Domains :
       CheckedNow(d) =>
         /\ \A other \in Domains \ {d} : rateLimiter'[other] = rateLimiter[other]
         /\ AdmittedNow(d) <=> Len(ValidRequests(rateLimiter[d], now)) < domainLimit
         /\ ~AdmittedNow(d) => rateLimiter'[d] = rateLimiter[d]
         /\ AdmittedNow(d) =>
               rateLimiter'[d] = Append(ValidRequests(rateLimiter[d], now), now)]_vars

\* a domain was admitted and then refused, and while its window was still
\* full a call for another domain was admitted
C31_Witness ==
  \E d \in Domains : \E other \in Domains \ {d} :
    \E i \in 1..Len(rlLog[d]) : \E j \in 1..Len(rlLog[d]) : \E h \in 1..Len(rlLog[other]) :
      /\ i < j
      /\ rlLog[d][i].ok /\ ~rlLog[d][j].ok
      /\ rlLog[other][h].ok
      /\ rlLog[other][h].at > rlLog[d][j].at
      /\ rlLog[other][h].at - rlLog[d][i].at < rateLimitWindow
      /\ Len(ValidRequests(rateLimiter[d], rlLog[other][h].at)) >= domainLimit

\* the same in the pipeline (SpecAdv): a verifyEmailAdvanced call touches the
\* window of its own address's domain only, and returns rate_limited only
\* when that window is full
C31_PipelineOwnDomain ==
  [][lastRet'.kind # "none" =>
       LET d == DomainOf(lastRet'.email) IN
       /\ \A other \in Domains \ {d} : rateLimiter'[other] = rateLimiter[other]
       /\ lastRet'.kind = "return" /\ lastRet'.value.status = "rate_limited" =>
             /\ rateLimiter' = rateLimiter
             /\ Len(ValidRequests(rateLimiter[d], now)) >= domainLimit]_vars

====
